---- MODULE Spec2Model ----
(***************************************************************************)
(* A model of the iCalendar property value codecs of icalendar/prop.py.    *)
(*                                                                         *)
(* Text is modelled as a sequence of one-character strings, so that every  *)
(* encoder really formats and every decoder really parses.  A timedelta is *)
(* the normalised pair (days, seconds) that Python keeps (0 <= seconds <   *)
(* 86400); microseconds are outside the whole-second values modelled.      *)
(* Every call that can raise returns a record whose field "ok" tells       *)
(* whether it returned, and whose field "err" names the exception.         *)
(***************************************************************************)
EXTENDS Integers, Sequences, FiniteSets, TLC

VARIABLES
    duration,            \* a vDuration being encoded and decoded
    utcoffset,           \* a vUTCOffset being constructed, encoded, decoded
    weekday,             \* a vWeekday being decoded
    period,              \* a vPeriod being constructed and compared
    PropertyValue_params, \* the class attribute PropertyValue.params
    instances,           \* the property values constructed so far
    temporal,            \* a vDatetime, vDate or vTime text being decoded
    ddd,                 \* a call of vDDDTypesFactory.from_ical
    recur,               \* a recurrence rule text, its rule and its encoding
    ddd_list,            \* a vDDDLists text, the list decoded and its encoding
    types_factory        \* a TypesFactory and the last lookup made in it

vars == <<duration, utcoffset, weekday, period, PropertyValue_params, instances,
          temporal, ddd, recur, ddd_list, types_factory>>

----------------------------------------------------------------------------
(* Python primitives used by the codecs.                                   *)

SecondsPerDay == 86400
SecondsPerHour == 3600
SecondsPerMinute == 60
HoursPerDay == 24
DaysPerWeek == 7

Min(a, b) == IF a < b THEN a ELSE b
Max(a, b) == IF a < b THEN b ELSE a
Abs(n) == IF n < 0 THEN -n ELSE n

Digits == <<"0", "1", "2", "3", "4", "5", "6", "7", "8", "9">>
IsDigit(c) == \E i \in 1..Len(Digits) : Digits[i] = c
DigitVal(c) == (CHOOSE i \in 1..Len(Digits) : Digits[i] = c) - 1
\* The white space int() strips from ASCII text: space, tab, line feed,
\* carriage return, vertical tab (written as the character itself) and
\* form feed.
IsSpace(c) == c \in {" ", "\t", "\n", "\r", "", "\f"}

\* s[a:b] for 0 <= a <= b: the slice is cut at the end of s.
Slice(s, a, b) ==
    IF a >= Min(b, Len(s)) THEN <<>> ELSE SubSeq(s, a + 1, Min(b, Len(s)))

\* s[a:]
SliceFrom(s, a) == Slice(s, a, Len(s))

RECURSIVE DigitsValue(_)
DigitsValue(s) ==
    IF s = <<>> THEN 0
    ELSE 10 * DigitsValue(SubSeq(s, 1, Len(s) - 1)) + DigitVal(s[Len(s)])

AllDigits(s) == s # <<>> /\ \A i \in 1..Len(s) : IsDigit(s[i])

RECURSIVE LStrip(_)
LStrip(s) == IF s # <<>> /\ IsSpace(s[1]) THEN LStrip(Tail(s)) ELSE s

RECURSIVE RStrip(_)
RStrip(s) ==
    IF s # <<>> /\ IsSpace(s[Len(s)]) THEN RStrip(SubSeq(s, 1, Len(s) - 1)) ELSE s

\* The digits of an int() literal: one or more decimal digits, where a single
\* underscore may stand between two digits.
GroupedDigits(s) ==
    /\ s # <<>>
    /\ \A i \in 1..Len(s) : IsDigit(s[i]) \/ s[i] = "_"
    /\ IsDigit(s[1]) /\ IsDigit(s[Len(s)])
    /\ \A i \in 1..(Len(s) - 1) : ~(s[i] = "_" /\ s[i + 1] = "_")

\* int(text): surrounding white space and one leading sign are accepted,
\* then decimal digits with single underscores between them, which do not
\* count; anything else raises ValueError.
PyInt(s) ==
    LET t == RStrip(LStrip(s))
        neg == t # <<>> /\ t[1] = "-"
        signed == t # <<>> /\ t[1] \in {"+", "-"}
        body == IF signed THEN Tail(t) ELSE t
        digits == SelectSeq(body, IsDigit)
    IN  IF GroupedDigits(body)
        THEN [ok |-> TRUE, v |-> IF neg THEN -DigitsValue(digits) ELSE DigitsValue(digits)]
        ELSE [ok |-> FALSE, v |-> 0]

\* "%d" % n
RECURSIVE NatStr(_)
NatStr(n) ==
    IF n < 10 THEN <<Digits[n + 1]>> ELSE NatStr(n \div 10) \o <<Digits[(n % 10) + 1]>>

FormatD(n) == IF n < 0 THEN <<"-">> \o NatStr(-n) ELSE NatStr(n)

RECURSIVE ZeroPad(_, _)
ZeroPad(s, w) == IF Len(s) >= w THEN s ELSE ZeroPad(<<"0">> \o s, w)

\* "%0<w>d" % n
FormatPad(n, w) ==
    IF n < 0 THEN <<"-">> \o ZeroPad(NatStr(-n), w - 1) ELSE ZeroPad(NatStr(n), w)

\* str.upper()
LowerLetters == <<"a", "b", "c", "d", "e", "f", "g", "h", "i", "j", "k", "l", "m",
                  "n", "o", "p", "q", "r", "s", "t", "u", "v", "w", "x", "y", "z">>
UpperLetters == <<"A", "B", "C", "D", "E", "F", "G", "H", "I", "J", "K", "L", "M",
                  "N", "O", "P", "Q", "R", "S", "T", "U", "V", "W", "X", "Y", "Z">>
IsLetter(c) ==
    \E i \in 1..Len(LowerLetters) : LowerLetters[i] = c \/ UpperLetters[i] = c
\* The regex class \w
IsWord(c) == IsLetter(c) \/ IsDigit(c) \/ c = "_"
UpperChar(c) ==
    IF \E i \in 1..Len(LowerLetters) : LowerLetters[i] = c
    THEN UpperLetters[CHOOSE i \in 1..Len(LowerLetters) : LowerLetters[i] = c]
    ELSE c
Upper(s) == [i \in 1..Len(s) |-> UpperChar(s[i])]

StartsWith(s, p) == Len(s) >= Len(p) /\ SubSeq(s, 1, Len(p)) = p

----------------------------------------------------------------------------
(* datetime.timedelta: normalised to days and 0 <= seconds < 86400.        *)

TimedeltaOfSeconds(total) ==
    [days |-> total \div SecondsPerDay, seconds |-> total % SecondsPerDay]

TotalSeconds(td) == td.days * SecondsPerDay + td.seconds

timedelta(weeks, days, hours, minutes, seconds) ==
    TimedeltaOfSeconds((weeks * DaysPerWeek + days) * SecondsPerDay
                       + hours * SecondsPerHour + minutes * SecondsPerMinute
                       + seconds)

TimedeltaNeg(td) == TimedeltaOfSeconds(-TotalSeconds(td))
TimedeltaAdd(a, b) == TimedeltaOfSeconds(TotalSeconds(a) + TotalSeconds(b))
TimedeltaSub(a, b) == TimedeltaOfSeconds(TotalSeconds(a) - TotalSeconds(b))
TimedeltaLess(a, b) == TotalSeconds(a) < TotalSeconds(b)

ZERO == timedelta(0, 0, 0, 0, 0)

----------------------------------------------------------------------------
(* datetime.date, datetime.datetime and datetime.time.  A date is a record *)
(* of kind "date", a datetime one of kind "datetime" with a zone tz ("" is *)
(* zone-naive), a time one of kind "time"; a timedelta has no kind field.  *)

MINYEAR == 1
MAXYEAR == 9999
MonthsPerYear == 12

Kind(v) == IF "kind" \in DOMAIN v THEN v.kind ELSE "timedelta"

IsLeap(y) == (y % 4 = 0 /\ y % 100 # 0) \/ y % 400 = 0
DAYS_IN_MONTH == <<31, 28, 31, 30, 31, 30, 31, 31, 30, 31, 30, 31>>
DaysInMonth(y, m) == IF m = 2 /\ IsLeap(y) THEN 29 ELSE DAYS_IN_MONTH[m]
RECURSIVE DaysBeforeMonth(_, _)
DaysBeforeMonth(y, m) ==
    IF m = 1 THEN 0 ELSE DaysBeforeMonth(y, m - 1) + DaysInMonth(y, m - 1)
DaysBeforeYear(y) ==
    (y - 1) * 365 + (y - 1) \div 4 - (y - 1) \div 100 + (y - 1) \div 400

\* date.toordinal()
ToOrdinal(d) == DaysBeforeYear(d.year) + DaysBeforeMonth(d.year, d.month) + d.day

\* date.fromordinal(n), as [year, month, day]
RECURSIVE MonthOfYearDay(_, _, _)
MonthOfYearDay(y, m, n) ==
    IF n <= DaysInMonth(y, m) THEN [year |-> y, month |-> m, day |-> n]
    ELSE MonthOfYearDay(y, m + 1, n - DaysInMonth(y, m))
FromOrdinal(n) ==
    LET n0 == n - 1
        n400 == n0 \div 146097
        r400 == n0 % 146097
        n100 == r400 \div 36524
        r100 == r400 % 36524
        n4 == r100 \div 1461
        r4 == r100 % 1461
        n1 == r4 \div 365
        r1 == r4 % 365
        year == n400 * 400 + 1 + n100 * 100 + n4 * 4 + n1
    IN  IF n1 = 4 \/ n100 = 4
        THEN [year |-> year - 1, month |-> 12, day |-> 31]
        ELSE MonthOfYearDay(year, 1, r1 + 1)

\* date(year, month, day) accepts these fields; otherwise ValueError.
ValidDate(y, m, d) ==
    /\ MINYEAR <= y /\ y <= MAXYEAR
    /\ 1 <= m /\ m <= MonthsPerYear
    /\ 1 <= d /\ d <= DaysInMonth(y, m)

\* time(hour, minute, second) accepts these fields; otherwise ValueError.
ValidTime(h, m, s) ==
    /\ 0 <= h /\ h < HoursPerDay
    /\ 0 <= m /\ m < 60
    /\ 0 <= s /\ s < 60

MkDate(y, m, d) == [kind |-> "date", year |-> y, month |-> m, day |-> d]
MkDatetime(y, m, d, hh, mm, ss, tz) ==
    [kind |-> "datetime", year |-> y, month |-> m, day |-> d,
     hour |-> hh, minute |-> mm, second |-> ss, tz |-> tz]
MkTime(hh, mm, ss, tz) ==
    [kind |-> "time", hour |-> hh, minute |-> mm, second |-> ss, tz |-> tz]

\* The zones pytz knows among the identifiers the model uses, with the UTC
\* offset in seconds each has on the (winter) days modelled.
KnownZones == {"UTC", "Europe/Vienna", "America/New_York"}
UtcOffsetOf(tz) ==
    CASE tz = "Europe/Vienna" -> SecondsPerHour
      [] tz = "America/New_York" -> -5 * SecondsPerHour
      [] OTHER -> 0

SecondOfDay(dt) ==
    dt.hour * SecondsPerHour + dt.minute * SecondsPerMinute + dt.second

\* A point of the time line as whole days since the ordinal origin and
\* seconds into the day (a product of the two would not fit TLC's integers).
Point(days, seconds) ==
    [days |-> days + seconds \div SecondsPerDay, seconds |-> seconds % SecondsPerDay]

\* The wall-clock reading of a datetime, and the instant it denotes (aware
\* datetimes are ordered and subtracted by instant).
LocalPoint(dt) == Point(ToOrdinal(dt), SecondOfDay(dt))
Instant(dt) == Point(ToOrdinal(dt), SecondOfDay(dt) - UtcOffsetOf(dt.tz))

DatetimeOfLocalPoint(pt, tz) ==
    LET d == FromOrdinal(pt.days)
    IN  MkDatetime(d.year, d.month, d.day, pt.seconds \div SecondsPerHour,
                   (pt.seconds % SecondsPerHour) \div SecondsPerMinute,
                   pt.seconds % SecondsPerMinute, tz)

\* Whether Python can subtract or order a and b (dates with dates, naive
\* datetimes with naive ones, aware with aware); otherwise TypeError.
Comparable(a, b) ==
    \/ Kind(a) = "date" /\ Kind(b) = "date"
    \/ Kind(a) = "datetime" /\ Kind(b) = "datetime" /\ ((a.tz = "") <=> (b.tz = ""))

\* The point two comparable values are ordered by.
Position(v) == IF Kind(v) = "date" THEN Point(ToOrdinal(v), 0) ELSE Instant(v)

PointLess(p, q) == p.days < q.days \/ (p.days = q.days /\ p.seconds < q.seconds)

\* a > b, a == b (for Comparable values)
TemporalGreater(a, b) == PointLess(Position(b), Position(a))
TemporalEqual(a, b) == Position(a) = Position(b)

\* date.max.toordinal()
MaxOrdinal == ToOrdinal(MkDate(MAXYEAR, MonthsPerYear, 31))

\* start + duration: a date moves by whole days only, a datetime keeps its
\* zone; a result outside the years MINYEAR..MAXYEAR raises OverflowError.
TemporalAdd(start, td) ==
    LET sum == IF Kind(start) = "date" THEN Point(ToOrdinal(start) + td.days, 0)
               ELSE Point(LocalPoint(start).days + td.days,
                          LocalPoint(start).seconds + td.seconds)
        made(d) == MkDate(d.year, d.month, d.day)
    IN  IF sum.days < 1 \/ sum.days > MaxOrdinal
        THEN [ok |-> FALSE, err |-> "OverflowError", value |-> ZERO]
        ELSE [ok |-> TRUE, err |-> "",
              value |-> IF Kind(start) = "date" THEN made(FromOrdinal(sum.days))
                        ELSE DatetimeOfLocalPoint(sum, start.tz)]

\* end - start (for Comparable values)
TemporalSub(end, start) ==
    Point(Position(end).days - Position(start).days,
          Position(end).seconds - Position(start).seconds)

----------------------------------------------------------------------------
(* Parameters: a case-insensitive map, held as a set of <<KEY, value>>     *)
(* pairs with upper-case keys, one pair a key.                             *)

\* Parameters()
Parameters == {}

\* params[key] = value
ParamsSet(params, key, value) == {q \in params : q[1] # key} \cup {<<key, value>>}

\* key in params
ParamsHas(params, key) == \E q \in params : q[1] = key

\* tzid_from_dt(value): the zone identifier of a datetime or time, "" (None)
\* for a zone-naive one and for a date.
tzid_from_dt(value) == IF Kind(value) \in {"datetime", "time"} THEN value.tz ELSE ""

\* tzid.lower() == 'utc'
IsUtcName(tzid) ==
    tzid \in {"UTC", "UTc", "UtC", "Utc", "uTC", "uTc", "utC", "utc"}

\* _set_tzid_param(params, value): the map params is left holding.
set_tzid_param(params, value) ==
    LET tzid == tzid_from_dt(value)
    IN  IF tzid # "" /\ ~IsUtcName(tzid) THEN ParamsSet(params, "TZID", tzid) ELSE params

\* The result of a call that has not been made.
\* A string object: its type, "str" for the unicode text _to_ical returns
\* and from_ical is written for, "bytes" for encoded text, and its characters.
Unicode(text) == [type |-> "str", chars |-> text]

\* PropertyValue.to_ical: self._to_ical().encode(DEFAULT_ENCODING). Every
\* text the codecs emit is ASCII, so the bytes are the characters one for
\* one; the object is bytes and no longer text.
PropertyValue_to_ical(text) == [type |-> "bytes", chars |-> text]

NoTimedelta == [ok |-> FALSE, err |-> "", value |-> ZERO]

\* What each variable holds in a specification that does not exercise it.
DurationIdle ==
    [pc |-> "idle", value |-> ZERO, ical |-> <<>>, type |-> "str",
     decoded |-> NoTimedelta]
NoWeekday == [ok |-> FALSE, err |-> "", value |-> <<>>, relative |-> 0, none |-> TRUE]
WeekdayIdle == [pc |-> "idle", ical |-> <<>>, decoded |-> NoWeekday, encoded |-> <<>>]
NoText == [ok |-> FALSE, err |-> "", text |-> <<>>]
NoPeriod ==
    [ok |-> FALSE, err |-> "", start |-> ZERO, end |-> ZERO, duration |-> ZERO,
     by_duration |-> 0]
NoBool == [ok |-> FALSE, err |-> "", value |-> FALSE]
PeriodIdle ==
    [pc |-> "idle", start |-> ZERO, end_or_duration |-> ZERO, self |-> NoPeriod,
     other |-> NoPeriod, ab |-> NoBool, ba |-> NoBool, encoded |-> NoText]
NoTemporal == [ok |-> FALSE, err |-> "", value |-> ZERO, params |-> {}]
TemporalIdle ==
    [pc |-> "idle", cls |-> "", ical |-> <<>>, timezone |-> "",
     decoded |-> NoTemporal, encoded |-> <<>>]
DDDIdle ==
    [pc |-> "idle", native |-> ZERO, ical |-> <<>>, type |-> "str", timezone |-> "",
     tried |-> <<>>, result |-> NoTemporal]
NoRecur == [ok |-> FALSE, err |-> "", rule |-> <<>>, msg |-> <<>>]
RecurIdle == [pc |-> "idle", ical |-> <<>>, decoded |-> NoRecur, encoded |-> NoText]
NoList == [ok |-> FALSE, err |-> "", value |-> <<>>, own |-> FALSE, params |-> {}]
DDDListsIdle ==
    [pc |-> "idle", ical |-> <<>>, timezone |-> "", self |-> NoList, encoded |-> <<>>]
NoCodec == [ok |-> FALSE, err |-> "", codec |-> ""]
TypesFactoryIdle == [pc |-> "idle", self |-> <<>>, name |-> <<>>, found |-> NoCodec]
UTCOffsetIdle ==
    [pc |-> "idle", native |-> ZERO, ical |-> <<>>,
     made |-> NoTimedelta, decoded |-> NoTimedelta]

----------------------------------------------------------------------------
(* vDuration                                                               *)

\* vDuration._to_ical as it would be with `value = -value` left out.
vDuration_to_ical_unnegated(value0) ==
    LET neg == value0.days < 0
        sign == IF neg THEN <<"-">> ELSE <<>>
        value == value0
        hours == value.seconds \div SecondsPerHour
        minutes == (value.seconds % SecondsPerHour) \div SecondsPerMinute
        seconds == value.seconds % SecondsPerMinute
        timepart ==
            IF value.seconds # 0
            THEN <<"T">>
                 \o (IF hours # 0 THEN FormatD(hours) \o <<"H">> ELSE <<>>)
                 \o (IF minutes # 0 \/ (hours # 0 /\ seconds # 0)
                     THEN FormatD(minutes) \o <<"M">> ELSE <<>>)
                 \o (IF seconds # 0 THEN FormatD(seconds) \o <<"S">> ELSE <<>>)
            ELSE <<>>
    IN  IF value.days = 0 /\ timepart # <<>>
        THEN sign \o <<"P">> \o timepart
        ELSE sign \o <<"P">> \o FormatD(Abs(value.days)) \o <<"D">> \o timepart

\* vDuration._to_ical
vDuration_to_ical(value0) ==
    LET neg == value0.days < 0
        sign == IF neg THEN <<"-">> ELSE <<>>
        value == IF neg THEN TimedeltaNeg(value0) ELSE value0
        hours == value.seconds \div SecondsPerHour
        minutes == (value.seconds % SecondsPerHour) \div SecondsPerMinute
        seconds == value.seconds % SecondsPerMinute
        timepart ==
            IF value.seconds # 0
            THEN <<"T">>
                 \o (IF hours # 0 THEN FormatD(hours) \o <<"H">> ELSE <<>>)
                 \o (IF minutes # 0 \/ (hours # 0 /\ seconds # 0)
                     THEN FormatD(minutes) \o <<"M">> ELSE <<>>)
                 \o (IF seconds # 0 THEN FormatD(seconds) \o <<"S">> ELSE <<>>)
            ELSE <<>>
    IN  IF value.days = 0 /\ timepart # <<>>
        THEN sign \o <<"P">> \o timepart
        ELSE sign \o <<"P">> \o FormatD(Abs(value.days)) \o <<"D">> \o timepart

\* The first position at or after i of s that holds no digit.
RECURSIVE DigitsEnd(_, _)
DigitsEnd(s, i) ==
    IF i <= Len(s) /\ IsDigit(s[i]) THEN DigitsEnd(s, i + 1) ELSE i

\* One optional regex group (\d+)<letter> tried at position i.
RegexGroup(s, i, letter) ==
    LET j == DigitsEnd(s, i)
    IN  IF j > i /\ j <= Len(s) /\ s[j] = letter
        THEN [hit |-> TRUE, text |-> SubSeq(s, i, j - 1), next |-> j + 1]
        ELSE [hit |-> FALSE, text |-> <<>>, next |-> i]

\* The regex anchor $: the end of the text, or just before a final newline.
AtEnd(s, i) == i = Len(s) + 1 \/ (i = Len(s) /\ s[i] = "\n")

NoDurationMatch ==
    [ok |-> FALSE, sign |-> <<>>, weeks |-> <<>>, days |-> <<>>,
     hours |-> <<>>, minutes |-> <<>>, seconds |-> <<>>]

\* DURATION_REGEX.match(ical): an unmatched group is the empty text.
DURATION_REGEX(s) ==
    LET signed == s # <<>> /\ s[1] \in {"-", "+"}
        sign == IF signed THEN <<s[1]>> ELSE <<>>
        p == IF signed THEN 2 ELSE 1
        i == p + 1
        w == RegexGroup(s, i, "W")
        d == RegexGroup(s, i, "D")
        hasT == d.next <= Len(s) /\ s[d.next] = "T"
        h == RegexGroup(s, d.next + 1, "H")
        m == RegexGroup(s, h.next, "M")
        sec == RegexGroup(s, m.next, "S")
    IN  IF ~(p <= Len(s) /\ s[p] = "P") THEN NoDurationMatch
        ELSE IF w.hit /\ AtEnd(s, w.next)
        THEN [ok |-> TRUE, sign |-> sign, weeks |-> w.text, days |-> <<>>,
              hours |-> <<>>, minutes |-> <<>>, seconds |-> <<>>]
        ELSE IF hasT /\ AtEnd(s, sec.next)
        THEN [ok |-> TRUE, sign |-> sign, weeks |-> <<>>, days |-> d.text,
              hours |-> h.text, minutes |-> m.text, seconds |-> sec.text]
        ELSE IF AtEnd(s, d.next)
        THEN [ok |-> TRUE, sign |-> sign, weeks |-> <<>>, days |-> d.text,
              hours |-> <<>>, minutes |-> <<>>, seconds |-> <<>>]
        ELSE NoDurationMatch

\* int(group or 0)
IntOr0(text) == IF text = <<>> THEN 0 ELSE PyInt(text).v

\* vDuration.from_ical: the decoded timedelta, or ValueError.
vDuration_from_ical(ical) ==
    LET match == DURATION_REGEX(ical)
        value == IF match.weeks # <<>>
                 THEN timedelta(PyInt(match.weeks).v, 0, 0, 0, 0)
                 ELSE timedelta(0, IntOr0(match.days), IntOr0(match.hours),
                                IntOr0(match.minutes), IntOr0(match.seconds))
    IN  IF ~match.ok THEN [ok |-> FALSE, err |-> "ValueError", value |-> ZERO]
        ELSE [ok |-> TRUE, err |-> "",
              value |-> IF match.sign = <<"-">> THEN TimedeltaNeg(value) ELSE value]

\* Bounds of the durations tried: whole days up to MaxDays either side of
\* zero, with the seconds of a day taken from SecondsSamples.
MaxDays == 2
SecondsSamples == {0, 1, 59, 60, 61, 3599, 3600, 3601, 3660, 3661, 86399}
Durations ==
    {[days |-> d, seconds |-> s] : d \in (-MaxDays)..MaxDays, s \in SecondsSamples}

DurationInit ==
    /\ utcoffset = UTCOffsetIdle
    /\ weekday = WeekdayIdle
    /\ period = PeriodIdle
    /\ PropertyValue_params = Parameters
    /\ types_factory = TypesFactoryIdle
    /\ ddd_list = DDDListsIdle
    /\ instances = <<>>
    /\ recur = RecurIdle
    /\ temporal = TemporalIdle
    /\ ddd = DDDIdle
    /\ duration \in {[DurationIdle EXCEPT !.pc = "native", !.value = v]
                  : v \in Durations}

\* vDuration.from_ical handed a string object. DURATION_REGEX is a str
\* pattern: matching it against bytes raises TypeError, which the bare except
\* turns into ValueError like every other failure.
vDuration_from_ical_object(ical) ==
    IF ical.type = "bytes" THEN [ok |-> FALSE, err |-> "ValueError", value |-> ZERO]
    ELSE vDuration_from_ical(ical.chars)

\* vDuration(value).to_ical()
DurationToIcal ==
    /\ duration.pc = "native"
    /\ LET ical == PropertyValue_to_ical(vDuration_to_ical(duration.value))
       IN  duration' = [duration EXCEPT !.pc = "encoded", !.ical = ical.chars,
                                        !.type = ical.type]
    /\ UNCHANGED <<utcoffset, weekday, period, PropertyValue_params, instances, temporal, ddd,
                   recur, ddd_list,
                   types_factory>>

\* vDuration(value)._to_ical()
DurationToIcalUnicode ==
    /\ duration.pc = "native"
    /\ LET ical == Unicode(vDuration_to_ical(duration.value))
       IN  duration' = [duration EXCEPT !.pc = "encoded", !.ical = ical.chars,
                                        !.type = ical.type]
    /\ UNCHANGED <<utcoffset, weekday, period, PropertyValue_params, instances, temporal, ddd,
                   recur, ddd_list,
                   types_factory>>

\* vDuration.from_ical(ical)
DurationFromIcal ==
    /\ duration.pc = "encoded"
    /\ duration' = [duration EXCEPT
                       !.pc = "decoded",
                       !.decoded = vDuration_from_ical_object(
                                       [type |-> duration.type, chars |-> duration.ical])]
    /\ UNCHANGED <<utcoffset, weekday, period, PropertyValue_params, instances, temporal, ddd,
                   recur, ddd_list,
                   types_factory>>

DurationNext == DurationToIcal \/ DurationToIcalUnicode \/ DurationFromIcal

SpecDuration == DurationInit /\ [][DurationNext]_vars

\* C1: every whole-second duration survives vDuration(v).to_ical() then
\* vDuration.from_ical unchanged; the encoded text matches the decode
\* grammar, and zero encodes as P0D.
C1_DurationRoundTrip ==
    /\ duration.pc # "native" =>
          /\ DURATION_REGEX(duration.ical).ok
          /\ (duration.value = ZERO => duration.ical = <<"P", "0", "D">>)
    /\ (duration.pc = "decoded" /\ duration.type = "bytes") =>
          /\ duration.decoded.ok
          /\ duration.decoded.value = duration.value

\* The same round trip through the unicode text of _to_ical(), which
\* from_ical reads back to the duration encoded.
DurationUnicodeRoundTrip ==
    (duration.pc = "decoded" /\ duration.type = "str") =>
        /\ duration.decoded.ok
        /\ duration.decoded.value = duration.value

\* A negative duration with days, hours, minutes and seconds has been
\* encoded as text and decoded.
DurationUnicodeWitness ==
    /\ duration.pc = "decoded"
    /\ duration.type = "str"
    /\ duration.value.days < -1
    /\ duration.value.seconds = 3661
    /\ duration.decoded.ok

----------------------------------------------------------------------------
(* vUTCOffset                                                              *)

\* vUTCOffset.__init__: a value that is no timedelta raises ValueError; any
\* timedelta is taken as it is.
vUTCOffset_init(value) ==
    IF Kind(value) # "timedelta" THEN [ok |-> FALSE, err |-> "ValueError", value |-> ZERO]
    ELSE [ok |-> TRUE, err |-> "", value |-> value]

\* vUTCOffset._to_ical
vUTCOffset_to_ical(value) ==
    LET neg == TimedeltaLess(value, ZERO)
        td == IF neg THEN TimedeltaSub(ZERO, value) ELSE value
        hours == Abs(td.days * HoursPerDay + td.seconds \div SecondsPerHour)
        minutes == Abs((td.seconds % SecondsPerHour) \div SecondsPerMinute)
        seconds == Abs(td.seconds % SecondsPerMinute)
        text == IF seconds # 0
                THEN FormatPad(hours, 2) \o FormatPad(minutes, 2) \o FormatPad(seconds, 2)
                ELSE FormatPad(hours, 2) \o FormatPad(minutes, 2)
    IN  (IF neg THEN <<"-">> ELSE <<"+">>) \o text

\* vUTCOffset.from_ical: the decoded offset, or ValueError.
vUTCOffset_from_ical(ical) ==
    LET sign == Slice(ical, 0, 1)
        hours == PyInt(Slice(ical, 1, 3))
        minutes == PyInt(Slice(ical, 3, 5))
        seconds == IF Slice(ical, 5, 7) = <<>> THEN [ok |-> TRUE, v |-> 0]
                   ELSE PyInt(Slice(ical, 5, 7))
        offset == timedelta(0, 0, hours.v, minutes.v, seconds.v)
    IN  IF ~(hours.ok /\ minutes.ok /\ seconds.ok)
        THEN [ok |-> FALSE, err |-> "ValueError", value |-> ZERO]
        ELSE IF ~TimedeltaLess(offset, timedelta(0, 0, HoursPerDay, 0, 0))
        THEN [ok |-> FALSE, err |-> "ValueError", value |-> ZERO]
        ELSE vUTCOffset_init(IF sign = <<"-">> THEN TimedeltaNeg(offset) ELSE offset)

\* The texts decoded: a first character, then hour, minute and second groups
\* and a tail, each drawn from well-formed and malformed samples.
OffsetFirst == {<<>>, <<"+">>, <<"-">>, <<"X">>, <<"0">>}
OffsetHours == {<<"0", "0">>, <<"0", "5">>, <<"2", "3">>, <<"2", "4">>,
                <<"-", "5">>, <<" ", "5">>, <<"0", "X">>}
OffsetMinutes == {<<"0", "0">>, <<"3", "0">>, <<"9", "9">>, <<"5">>, <<>>}
OffsetSeconds == {<<>>, <<"0", "0">>, <<"3", "0">>, <<"5">>, <<"Z", "Z">>}
OffsetTail == {<<>>, <<"Z">>}
OffsetTexts ==
    {f \o h \o m \o s \o t : f \in OffsetFirst, h \in OffsetHours,
                             m \in OffsetMinutes, s \in OffsetSeconds, t \in OffsetTail}

\* The native values constructed from: offsets of up to MaxOffsetHours hours
\* either side, and a date, a datetime and a time, which are no offsets.
MaxOffsetHours == 25
OffsetNatives ==
    {TimedeltaOfSeconds(sg * (h * SecondsPerHour + m * SecondsPerMinute + s)) :
        sg \in {-1, 1}, h \in 0..MaxOffsetHours, m \in {0, 30}, s \in {0, 30}}
    \cup {MkDate(2023, 1, 1), MkDatetime(2023, 1, 1, 12, 0, 0, ""),
          MkTime(12, 0, 0, "")}

UTCOffsetInit ==
    /\ duration = DurationIdle
    /\ weekday = WeekdayIdle
    /\ period = PeriodIdle
    /\ PropertyValue_params = Parameters
    /\ types_factory = TypesFactoryIdle
    /\ ddd_list = DDDListsIdle
    /\ instances = <<>>
    /\ recur = RecurIdle
    /\ temporal = TemporalIdle
    /\ ddd = DDDIdle
    /\ utcoffset \in
          {[UTCOffsetIdle EXCEPT !.pc = "text", !.ical = t] : t \in OffsetTexts}
          \cup {[UTCOffsetIdle EXCEPT !.pc = "native", !.native = v] : v \in OffsetNatives}

\* vUTCOffset(value)
UTCOffsetConstruct ==
    /\ utcoffset.pc = "native"
    /\ utcoffset' = [utcoffset EXCEPT !.pc = "made",
                                      !.made = vUTCOffset_init(utcoffset.native)]
    /\ UNCHANGED <<duration, weekday, period, PropertyValue_params, instances, temporal, ddd,
                   recur, ddd_list,
                   types_factory>>

\* vUTCOffset(value)._to_ical()
UTCOffsetToIcal ==
    /\ utcoffset.pc = "made"
    /\ utcoffset.made.ok
    /\ utcoffset' = [utcoffset EXCEPT !.pc = "encoded",
                                      !.ical = vUTCOffset_to_ical(utcoffset.made.value)]
    /\ UNCHANGED <<duration, weekday, period, PropertyValue_params, instances, temporal, ddd,
                   recur, ddd_list,
                   types_factory>>

\* vUTCOffset.from_ical(text), of a given text or of an encoded offset
UTCOffsetFromIcal ==
    /\ utcoffset.pc \in {"text", "encoded"}
    /\ utcoffset' = [utcoffset EXCEPT
                        !.pc = IF utcoffset.pc = "text" THEN "decoded" ELSE "redecoded",
                        !.decoded = vUTCOffset_from_ical(utcoffset.ical)]
    /\ UNCHANGED <<duration, weekday, period, PropertyValue_params, instances, temporal, ddd,
                   recur, ddd_list,
                   types_factory>>

UTCOffsetNext == UTCOffsetConstruct \/ UTCOffsetToIcal \/ UTCOffsetFromIcal

SpecUTCOffset == UTCOffsetInit /\ [][UTCOffsetNext]_vars

\* The texts C5 takes to be valid: a sign, then four or six digits, the
\* whole less than 24 hours.
OffsetTextValue(t) ==
    DigitsValue(Slice(t, 1, 3)) * SecondsPerHour
    + DigitsValue(Slice(t, 3, 5)) * SecondsPerMinute + DigitsValue(Slice(t, 5, 7))
OffsetTextValid(t) ==
    /\ Len(t) \in {5, 7}
    /\ t[1] \in {"+", "-"}
    /\ AllDigits(Tail(t))
    /\ OffsetTextValue(t) < HoursPerDay * SecondsPerHour

\* C5: offset decode accepts exactly the texts of a sign followed by HHMM or
\* HHMMSS digits of less than 24 hours, with the signed value; all else fails.
C5_OffsetDecodeExact ==
    utcoffset.pc = "decoded" =>
        /\ utcoffset.decoded.ok <=> OffsetTextValid(utcoffset.ical)
        /\ utcoffset.decoded.ok =>
              TotalSeconds(utcoffset.decoded.value)
                  = (IF utcoffset.ical[1] = "-" THEN -1 ELSE 1)
                    * OffsetTextValue(utcoffset.ical)

\* C10: an offset of 24 hours or more is rejected when it is constructed,
\* so none is ever encoded.
C10_OffsetRejectedAtConstruction ==
    /\ utcoffset.pc = "made" /\ utcoffset.made.ok =>
          Abs(TotalSeconds(utcoffset.native)) < HoursPerDay * SecondsPerHour
    /\ utcoffset.pc = "encoded" =>
          Abs(TotalSeconds(utcoffset.native)) < HoursPerDay * SecondsPerHour

----------------------------------------------------------------------------
(* vWeekday                                                                *)

\* WEEKDAY_RULE.match(value): an optional sign, an optional digit, two word
\* characters, then the end of the text (or its final newline).
WEEKDAY_RULE(s) ==
    LET t == IF s # <<>> /\ s[Len(s)] = "\n" THEN SubSeq(s, 1, Len(s) - 1) ELSE s
        signed == t # <<>> /\ t[1] \in {"+", "-"}
        signal == IF signed THEN <<t[1]>> ELSE <<>>
        r == IF signed THEN Tail(t) ELSE t
        two(x) == Len(x) = 2 /\ IsWord(x[1]) /\ IsWord(x[2])
    IN  IF Len(r) = 3 /\ IsDigit(r[1]) /\ two(Tail(r))
        THEN [ok |-> TRUE, signal |-> signal, relative |-> <<r[1]>>, weekday |-> Tail(r)]
        ELSE IF two(r)
        THEN [ok |-> TRUE, signal |-> signal, relative |-> <<>>, weekday |-> r]
        ELSE [ok |-> FALSE, signal |-> <<>>, relative |-> <<>>, weekday |-> <<>>]

\* vWeekday.week_days: the keys of the case-insensitive table.
week_days == {<<"S", "U">>, <<"M", "O">>, <<"T", "U">>, <<"W", "E">>,
              <<"T", "H">>, <<"F", "R">>, <<"S", "A">>}

\* vWeekday.__init__: the instance's text and its attribute `relative`
\* (none: the attribute is None), or ValueError.
vWeekday_init(value) ==
    LET match == WEEKDAY_RULE(value)
        n == IF match.relative = <<>> THEN 0 ELSE PyInt(match.relative).v
    IN  IF ~match.ok THEN [NoWeekday EXCEPT !.err = "ValueError"]
        ELSE IF Upper(match.weekday) \notin week_days
                \/ match.signal \notin {<<>>, <<"+">>, <<"-">>}
        THEN [NoWeekday EXCEPT !.err = "ValueError"]
        ELSE [ok |-> TRUE, err |-> "", value |-> value,
              relative |-> n, none |-> n = 0]

\* vWeekday.from_ical
vWeekday_from_ical(ical) == vWeekday_init(Upper(ical))

\* vWeekday._to_ical
vWeekday_to_ical(value) == Upper(value)

\* The texts decoded: sign, ordinal digit, weekday code and tail, each from
\* well-formed and malformed samples.
WeekdaySigns == {<<>>, <<"+">>, <<"-">>, <<"*">>}
WeekdayOrdinals == {<<>>, <<"0">>, <<"1">>, <<"2">>, <<"5">>, <<"1", "2">>}
WeekdayCodes == {<<"M", "O">>, <<"F", "R">>, <<"S", "U">>, <<"m", "o">>,
                 <<"X", "X">>, <<"M">>, <<"M", "O", "N">>, <<>>}
WeekdayTail == {<<>>, <<"\n">>, <<" ">>}
WeekdayTexts ==
    {g \o o \o c \o t : g \in WeekdaySigns, o \in WeekdayOrdinals,
                        c \in WeekdayCodes, t \in WeekdayTail}

WeekdayInit ==
    /\ duration = DurationIdle
    /\ utcoffset = UTCOffsetIdle
    /\ period = PeriodIdle
    /\ PropertyValue_params = Parameters
    /\ types_factory = TypesFactoryIdle
    /\ ddd_list = DDDListsIdle
    /\ instances = <<>>
    /\ recur = RecurIdle
    /\ temporal = TemporalIdle
    /\ ddd = DDDIdle
    /\ weekday \in {[WeekdayIdle EXCEPT !.pc = "text", !.ical = t] : t \in WeekdayTexts}

\* vWeekday.from_ical(text)
WeekdayFromIcal ==
    /\ weekday.pc = "text"
    /\ weekday' = [weekday EXCEPT !.pc = "decoded",
                                  !.decoded = vWeekday_from_ical(weekday.ical)]
    /\ UNCHANGED <<duration, utcoffset, period, PropertyValue_params, instances, temporal, ddd,
                   recur, ddd_list,
                   types_factory>>

\* _to_ical() of the decoded weekday
WeekdayToIcal ==
    /\ weekday.pc = "decoded"
    /\ weekday.decoded.ok
    /\ weekday' = [weekday EXCEPT !.pc = "encoded",
                                  !.encoded = vWeekday_to_ical(weekday.decoded.value)]
    /\ UNCHANGED <<duration, utcoffset, period, PropertyValue_params, instances, temporal, ddd,
                   recur, ddd_list,
                   types_factory>>

WeekdayNext == WeekdayFromIcal \/ WeekdayToIcal

SpecWeekday == WeekdayInit /\ [][WeekdayNext]_vars

\* The reading C6 gives a text [sign][digit]<code>: the text after its sign
\* is a two-character code, with or without one digit before it.
WeekdayTextBody(t) == IF t # <<>> /\ t[1] \in {"+", "-"} THEN Tail(t) ELSE t
WeekdayTextHasDigit(t) == Len(WeekdayTextBody(t)) = 3 /\ IsDigit(WeekdayTextBody(t)[1])
WeekdayTextShaped(t) == Len(WeekdayTextBody(t)) = 2 \/ WeekdayTextHasDigit(t)
WeekdayTextCode(t) == SliceFrom(t, Len(t) - 2)
WeekdayTextOrdinal(t) ==
    (IF t[1] = "-" THEN -1 ELSE 1) * DigitVal(WeekdayTextBody(t)[1])

\* C6: decoding [sign][digit]<code> with a valid code records the digit with
\* the sign applied as the ordinal, and no ordinal when no digit is given;
\* a code outside SU..SA fails.  (A digit 0 counts as recorded whether the
\* ordinal is 0 or absent.)
C6_WeekdayOrdinalSigned ==
    (weekday.pc = "decoded" /\ WeekdayTextShaped(weekday.ical)) =>
        IF Upper(WeekdayTextCode(weekday.ical)) \in week_days
        THEN /\ weekday.decoded.ok
             /\ IF WeekdayTextHasDigit(weekday.ical)
                THEN \/ /\ ~weekday.decoded.none
                        /\ weekday.decoded.relative = WeekdayTextOrdinal(weekday.ical)
                     \/ /\ weekday.decoded.none
                        /\ WeekdayTextOrdinal(weekday.ical) = 0
                ELSE weekday.decoded.none
        ELSE ~weekday.decoded.ok

----------------------------------------------------------------------------
(* vPeriod                                                                 *)

\* vPeriod.__init__ as it would be without the check of start > end.
vPeriod_init_unchecked(start, end_or_duration) ==
    LET by_duration == IF Kind(end_or_duration) = "timedelta" THEN 1 ELSE 0
        sum == IF by_duration = 1 THEN TemporalAdd(start, end_or_duration)
               ELSE [ok |-> TRUE, err |-> "", value |-> end_or_duration]
        end == sum.value
        dur == IF by_duration = 1 THEN end_or_duration
               ELSE TemporalSub(end, start)
    IN  IF Kind(start) \notin {"datetime", "date"}
        THEN [NoPeriod EXCEPT !.err = "ValueError"]
        ELSE IF Kind(end_or_duration) \notin {"datetime", "date", "timedelta"}
        THEN [NoPeriod EXCEPT !.err = "ValueError"]
        ELSE IF ~sum.ok
        THEN [NoPeriod EXCEPT !.err = sum.err]
        ELSE IF by_duration = 0 /\ ~Comparable(end, start)
        THEN [NoPeriod EXCEPT !.err = "TypeError"]
        ELSE [ok |-> TRUE, err |-> "", start |-> start, end |-> end,
              duration |-> dur, by_duration |-> by_duration]

\* vPeriod.__init__: the attributes of the new period, or the exception
\* raised: ValueError from its own checks, OverflowError from start + duration,
\* TypeError from end - start.  (Its write to self.params is in the actions
\* that construct.)
vPeriod_init(start, end_or_duration) ==
    LET by_duration == IF Kind(end_or_duration) = "timedelta" THEN 1 ELSE 0
        sum == IF by_duration = 1 THEN TemporalAdd(start, end_or_duration)
               ELSE [ok |-> TRUE, err |-> "", value |-> end_or_duration]
        end == sum.value
        dur == IF by_duration = 1 THEN end_or_duration
               ELSE TemporalSub(end, start)
    IN  IF Kind(start) \notin {"datetime", "date"}
        THEN [NoPeriod EXCEPT !.err = "ValueError"]
        ELSE IF Kind(end_or_duration) \notin {"datetime", "date", "timedelta"}
        THEN [NoPeriod EXCEPT !.err = "ValueError"]
        ELSE IF ~sum.ok
        THEN [NoPeriod EXCEPT !.err = sum.err]
        ELSE IF by_duration = 0 /\ ~Comparable(end, start)
        THEN [NoPeriod EXCEPT !.err = "TypeError"]
        ELSE IF TemporalGreater(start, end)
        THEN [NoPeriod EXCEPT !.err = "ValueError"]
        ELSE [ok |-> TRUE, err |-> "", start |-> start, end |-> end,
              duration |-> dur, by_duration |-> by_duration]

\* vPeriod.value
vPeriod_value(self) ==
    IF self.by_duration = 1 THEN <<self.start, self.duration>>
    ELSE <<self.start, self.end>>

\* vPeriod.overlaps: a later-starting self hands over to other.overlaps(self).
vPeriod_overlaps(self, other) ==
    LET first == IF TemporalGreater(self.start, other.start) THEN other ELSE self
        second == IF TemporalGreater(self.start, other.start) THEN self ELSE other
    IN  IF ~Comparable(self.start, other.start)
        THEN [ok |-> FALSE, err |-> "TypeError", value |-> FALSE]
        ELSE [ok |-> TRUE, err |-> "",
              value |-> /\ ~TemporalGreater(first.start, second.start)
                        /\ TemporalGreater(first.end, second.start)]

\* The values periods are made of: dates and datetimes on the days from
\* PeriodBase to MaxPeriodDays days later, naive, in UTC under two spellings
\* of its name and in one other zone, and
\* durations of up to MaxPeriodDays days either side of zero.
MaxPeriodDays == 1
PeriodBase == ToOrdinal(MkDate(2022, 12, 31))
PeriodZones == {"", "UTC", "uTC", "Europe/Vienna"}
PeriodDates ==
    {LET d == FromOrdinal(PeriodBase + i) IN MkDate(d.year, d.month, d.day) :
        i \in 0..MaxPeriodDays}
PeriodDatetimes ==
    {MkDatetime(d.year, d.month, d.day, h, 0, 0, tz) :
        d \in PeriodDates, h \in {0, 1}, tz \in PeriodZones}
PeriodDurations ==
    {[days |-> d, seconds |-> sec] :
        d \in (-MaxPeriodDays)..MaxPeriodDays, sec \in {0, SecondsPerHour}}
NotADate == MkTime(12, 0, 0, "")
\* The first and the last date, and naive datetimes in the first and the last
\* hour, that Python represents.
PeriodEdges ==
    {MkDate(MINYEAR, 1, 1), MkDate(MAXYEAR, MonthsPerYear, 31),
     MkDatetime(MINYEAR, 1, 1, 0, 0, 0, ""),
     MkDatetime(MAXYEAR, MonthsPerYear, 31, 23, 0, 0, "")}
PeriodStarts == PeriodDates \cup PeriodDatetimes \cup PeriodEdges \cup {NotADate, ZERO}
PeriodSeconds == PeriodDates \cup PeriodDatetimes \cup PeriodDurations \cup {NotADate}

PeriodInit ==
    /\ duration = DurationIdle
    /\ utcoffset = UTCOffsetIdle
    /\ weekday = WeekdayIdle
    /\ PropertyValue_params = Parameters
    /\ types_factory = TypesFactoryIdle
    /\ ddd_list = DDDListsIdle
    /\ instances = <<>>
    /\ recur = RecurIdle
    /\ temporal = TemporalIdle
    /\ ddd = DDDIdle
    /\ period \in {[PeriodIdle EXCEPT !.pc = "args", !.start = a, !.end_or_duration = b]
                   : a \in PeriodStarts, b \in PeriodSeconds}

\* vPeriod((start, end_or_duration))
PeriodConstruct ==
    /\ period.pc = "args"
    /\ LET new == vPeriod_init(period.start, period.end_or_duration)
       IN  /\ period' = [period EXCEPT !.pc = "made", !.self = new]
           /\ PropertyValue_params' =
                  IF new.ok THEN set_tzid_param(PropertyValue_params, period.start)
                  ELSE PropertyValue_params
    /\ UNCHANGED <<duration, utcoffset, weekday, instances, temporal, ddd,
                   recur, ddd_list,
                   types_factory>>

\* other = vPeriod(...); self.overlaps(other); other.overlaps(self)
PeriodOverlaps ==
    /\ period.pc = "made"
    /\ period.self.ok
    /\ \E a \in PeriodStarts, b \in PeriodSeconds :
          LET other == vPeriod_init(a, b)
          IN  /\ other.ok
              /\ period' = [period EXCEPT
                               !.pc = "compared", !.other = other,
                               !.ab = vPeriod_overlaps(period.self, other),
                               !.ba = vPeriod_overlaps(other, period.self)]
              /\ PropertyValue_params' = set_tzid_param(PropertyValue_params, a)
    /\ UNCHANGED <<duration, utcoffset, weekday, instances, temporal, ddd,
                   recur, ddd_list,
                   types_factory>>

\* vDatetime._to_ical
vDatetime_to_ical(value) ==
    FormatPad(value.year, 4) \o FormatPad(value.month, 2) \o FormatPad(value.day, 2)
    \o <<"T">>
    \o FormatPad(value.hour, 2) \o FormatPad(value.minute, 2)
    \o FormatPad(value.second, 2)
    \o (IF tzid_from_dt(value) # "" /\ IsUtcName(tzid_from_dt(value))
        THEN <<"Z">> ELSE <<>>)

\* vDatetime.__init__ followed by _to_ical: the text, or the ValueError for
\* a value that is no datetime.
vDatetime_init_to_ical(value) ==
    IF Kind(value) # "datetime" THEN [NoText EXCEPT !.err = "ValueError"]
    ELSE [ok |-> TRUE, err |-> "", text |-> vDatetime_to_ical(value)]

\* vPeriod._to_ical
vPeriod_to_ical(self) ==
    LET joined(first, second) ==
            IF ~first.ok THEN first
            ELSE IF ~second.ok THEN second
            ELSE [ok |-> TRUE, err |-> "", text |-> first.text \o <<"/">> \o second.text]
    IN  IF self.by_duration = 1
        THEN joined(vDatetime_init_to_ical(self.start),
                    [ok |-> TRUE, err |-> "", text |-> vDuration_to_ical(self.duration)])
        ELSE joined(vDatetime_init_to_ical(self.start),
                    vDatetime_init_to_ical(self.end))

\* self._to_ical()
PeriodToIcal ==
    /\ period.pc = "made"
    /\ period.self.ok
    /\ period' = [period EXCEPT !.pc = "encoded",
                                !.encoded = vPeriod_to_ical(period.self)]
    /\ UNCHANGED <<duration, utcoffset, weekday, PropertyValue_params, instances,
                   temporal, ddd, recur, ddd_list,
                   types_factory>>

PeriodNext == PeriodConstruct \/ PeriodOverlaps \/ PeriodToIcal

SpecPeriod == PeriodInit /\ [][PeriodNext]_vars

\* What C3 says of a constructed period and of a start given with an end.
PeriodRefusedOrSound(a, b, self) ==
    /\ (Comparable(a, b) /\ TemporalGreater(a, b)) =>
           (~self.ok /\ self.err = "ValueError")
    /\ (Comparable(a, b) /\ TemporalEqual(a, b)) => self.ok
    /\ (Kind(a) \in {"date", "datetime"} /\ b = ZERO) => self.ok
    /\ self.ok =>
          /\ ~TemporalGreater(self.start, self.end)
          /\ TemporalAdd(self.start, self.duration).ok
          /\ TemporalEqual(self.end, TemporalAdd(self.start, self.duration).value)
          /\ vPeriod_value(self) = <<a, b>>

\* A start is given with a negative duration.
NegativeDuration(a, b) ==
    Kind(a) \in {"date", "datetime"} /\ Kind(b) = "timedelta" /\ TimedeltaLess(b, ZERO)

\* The day and second a start given with a duration ends on lie within the
\* dates of the years MINYEAR..MAXYEAR.
EndRepresentable(a, b) ==
    LET seconds == IF Kind(a) = "date" THEN 0 ELSE SecondOfDay(a) + b.seconds
        day == ToOrdinal(a) + b.days
                  + (IF seconds < 0 THEN -1 ELSE IF seconds >= SecondsPerDay THEN 1 ELSE 0)
    IN  ToOrdinal(MkDate(MINYEAR, 1, 1)) <= day
        /\ day <= ToOrdinal(MkDate(MAXYEAR, MonthsPerYear, 31))

\* p's start lies in [q.start, q.end)
StartWithin(p, q) ==
    ~TemporalGreater(q.start, p.start) /\ TemporalGreater(q.end, p.start)

\* C4: overlaps is symmetric, and true exactly when one period's start lies
\* within the other's half-open interval.
C4_OverlapsSymmetric ==
    period.pc = "compared" =>
        /\ period.ab = period.ba
        /\ period.ab.ok =>
              (period.ab.value <=> (StartWithin(period.self, period.other)
                                    \/ StartWithin(period.other, period.self)))

----------------------------------------------------------------------------
(* PropertyValue.params: the class attribute every instance that assigns   *)
(* no params of its own reads and writes through self.params.              *)

\* The parameters read through instance.params: the instance's own
\* attribute if its constructor assigned one, else the class attribute.
ParamsOf(inst) == IF inst.own THEN inst.params ELSE PropertyValue_params

\* The classes whose __init__ assigns no self.params.
PlainClasses == {"vInt", "vText"}

\* The values constructed: one moment in each zone, naive, and a date.
ParamMoments ==
    {MkDatetime(2023, 1, 1, 12, 0, 0, tz) : tz \in {""} \cup KnownZones}
ParamDay == MkDate(2023, 1, 1)
ParamSpan == timedelta(0, 1, 0, 0, 0)

\* How many values are constructed.
MaxInstances == 3

ParamsInit ==
    /\ duration = DurationIdle
    /\ utcoffset = UTCOffsetIdle
    /\ weekday = WeekdayIdle
    /\ period = PeriodIdle
    /\ PropertyValue_params = Parameters
    /\ types_factory = TypesFactoryIdle
    /\ ddd_list = DDDListsIdle
    /\ instances = <<>>
    /\ recur = RecurIdle
    /\ temporal = TemporalIdle
    /\ ddd = DDDIdle

\* vInt(value), vText(value): PropertyValue.__init__ and the like
NewPlain ==
    /\ Len(instances) < MaxInstances
    /\ \E cls \in PlainClasses :
          instances' = Append(instances,
              [cls |-> cls, value |-> ZERO, own |-> FALSE, params |-> Parameters])
    /\ UNCHANGED <<duration, utcoffset, weekday, period, PropertyValue_params, temporal, ddd,
                   recur, ddd_list,
                   types_factory>>

\* vDatetime(value)
NewDatetime ==
    /\ Len(instances) < MaxInstances
    /\ \E dt \in ParamMoments :
          instances' = Append(instances,
              [cls |-> "vDatetime", value |-> dt, own |-> TRUE,
               params |-> set_tzid_param({<<"VALUE", "DATE-TIME">>}, dt)])
    /\ UNCHANGED <<duration, utcoffset, weekday, period, PropertyValue_params, temporal, ddd,
                   recur, ddd_list,
                   types_factory>>

\* vDate(value)
NewDate ==
    /\ Len(instances) < MaxInstances
    /\ instances' = Append(instances,
           [cls |-> "vDate", value |-> ParamDay, own |-> TRUE,
            params |-> {<<"VALUE", "DATE">>}])
    /\ UNCHANGED <<duration, utcoffset, weekday, period, PropertyValue_params, temporal, ddd,
                   recur, ddd_list,
                   types_factory>>

\* vPeriod((start, duration)): self.params is the class attribute, and
\* _set_tzid_param writes into it.
NewPeriod ==
    /\ Len(instances) < MaxInstances
    /\ \E start \in ParamMoments \cup {ParamDay} :
          LET new == vPeriod_init(start, ParamSpan)
          IN  /\ new.ok
              /\ instances' = Append(instances,
                     [cls |-> "vPeriod", value |-> new.start, own |-> FALSE,
                      params |-> Parameters])
              /\ PropertyValue_params' = set_tzid_param(PropertyValue_params, start)
    /\ UNCHANGED <<duration, utcoffset, weekday, period, temporal, ddd,
                   recur, ddd_list,
                   types_factory>>

ParamsNext == NewPlain \/ NewDatetime \/ NewDate \/ NewPeriod

SpecParams == ParamsInit /\ [][ParamsNext]_vars

\* C9: no parameter map is shared: a value of a type that attaches no
\* parameters shows none, whatever was constructed before or after it, and
\* a TZID shows only through the value whose own moment carries that zone.
C9_ParamsNeverShared ==
    \A i \in 1..Len(instances) :
        /\ instances[i].cls \in PlainClasses => ParamsOf(instances[i]) = Parameters
        /\ \A q \in ParamsOf(instances[i]) :
              q[1] = "TZID" => tzid_from_dt(instances[i].value) = q[2]

----------------------------------------------------------------------------
(* vDate, vDatetime, vTime                                                 *)

\* vDate._to_ical
vDate_to_ical(value) ==
    FormatPad(value.year, 4) \o FormatPad(value.month, 2) \o FormatPad(value.day, 2)

\* vDate.from_ical: three fixed slices through int() and date().
vDate_from_ical(ical) ==
    LET year == PyInt(Slice(ical, 0, 4))
        month == PyInt(Slice(ical, 4, 6))
        day == PyInt(Slice(ical, 6, 8))
    IN  IF year.ok /\ month.ok /\ day.ok /\ ValidDate(year.v, month.v, day.v)
        THEN [ok |-> TRUE, err |-> "", value |-> MkDate(year.v, month.v, day.v),
              params |-> {<<"VALUE", "DATE">>}]
        ELSE [NoTemporal EXCEPT !.err = "ValueError"]

\* pytz.timezone(timezone) under `if timezone:` with UnknownTimeZoneError
\* passed over: the zone, or "" (None) for no or an unknown identifier.
TzinfoOf(timezone) == IF timezone # "" /\ timezone \in KnownZones THEN timezone ELSE ""

\* vDatetime.from_ical as it would be with the trailing Z looked at before
\* the caller's zone.
vDatetime_from_ical_suffix_first(ical, timezone) ==
    LET tzinfo == TzinfoOf(timezone)
        year == PyInt(Slice(ical, 0, 4))
        month == PyInt(Slice(ical, 4, 6))
        day == PyInt(Slice(ical, 6, 8))
        hour == PyInt(Slice(ical, 9, 11))
        minute == PyInt(Slice(ical, 11, 13))
        second == PyInt(Slice(ical, 13, 15))
        fields == /\ year.ok /\ month.ok /\ day.ok
                  /\ hour.ok /\ minute.ok /\ second.ok
        valid == /\ ValidDate(year.v, month.v, day.v)
                 /\ ValidTime(hour.v, minute.v, second.v)
        dt(tz) == MkDatetime(year.v, month.v, day.v, hour.v, minute.v, second.v, tz)
        made(tz) == [ok |-> TRUE, err |-> "", value |-> dt(tz),
                     params |-> set_tzid_param({<<"VALUE", "DATE-TIME">>}, dt(tz))]
    IN  IF ~fields THEN [NoTemporal EXCEPT !.err = "ValueError"]
        ELSE IF Slice(ical, 15, 16) = <<"Z">>
        THEN (IF valid THEN made("UTC") ELSE [NoTemporal EXCEPT !.err = "ValueError"])
        ELSE IF tzinfo # ""
        THEN (IF valid THEN made(tzinfo) ELSE [NoTemporal EXCEPT !.err = "ValueError"])
        ELSE IF SliceFrom(ical, 15) = <<>>
        THEN (IF valid THEN made("") ELSE [NoTemporal EXCEPT !.err = "ValueError"])
        ELSE [NoTemporal EXCEPT !.err = "ValueError"]

\* vDatetime.from_ical
vDatetime_from_ical(ical, timezone) ==
    LET tzinfo == TzinfoOf(timezone)
        year == PyInt(Slice(ical, 0, 4))
        month == PyInt(Slice(ical, 4, 6))
        day == PyInt(Slice(ical, 6, 8))
        hour == PyInt(Slice(ical, 9, 11))
        minute == PyInt(Slice(ical, 11, 13))
        second == PyInt(Slice(ical, 13, 15))
        fields == /\ year.ok /\ month.ok /\ day.ok
                  /\ hour.ok /\ minute.ok /\ second.ok
        valid == /\ ValidDate(year.v, month.v, day.v)
                 /\ ValidTime(hour.v, minute.v, second.v)
        dt(tz) == MkDatetime(year.v, month.v, day.v, hour.v, minute.v, second.v, tz)
        made(tz) == [ok |-> TRUE, err |-> "", value |-> dt(tz),
                     params |-> set_tzid_param({<<"VALUE", "DATE-TIME">>}, dt(tz))]
    IN  IF ~fields THEN [NoTemporal EXCEPT !.err = "ValueError"]
        ELSE IF tzinfo # ""
        THEN (IF valid THEN made(tzinfo) ELSE [NoTemporal EXCEPT !.err = "ValueError"])
        ELSE IF SliceFrom(ical, 15) = <<>>
        THEN (IF valid THEN made("") ELSE [NoTemporal EXCEPT !.err = "ValueError"])
        ELSE IF Slice(ical, 15, 16) = <<"Z">>
        THEN (IF valid THEN made("UTC") ELSE [NoTemporal EXCEPT !.err = "ValueError"])
        ELSE [NoTemporal EXCEPT !.err = "ValueError"]

\* vTime._to_ical
vTime_to_ical(value) ==
    FormatPad(value.hour, 2) \o FormatPad(value.minute, 2)
    \o FormatPad(value.second, 2)
    \o (IF tzid_from_dt(value) # "" /\ IsUtcName(tzid_from_dt(value))
        THEN <<"Z">> ELSE <<>>)

\* tzinfo.localize(time(...)): pytz.utc sets the zone; a zone with
\* transitions adds a timedelta to the value, which a time does not support.
LocalizeTimeWorks(tzinfo) == IsUtcName(tzinfo)

\* vTime.from_ical
vTime_from_ical(ical, timezone) ==
    LET tzinfo == TzinfoOf(timezone)
        hour == PyInt(Slice(ical, 0, 2))
        minute == PyInt(Slice(ical, 2, 4))
        second == PyInt(Slice(ical, 4, 6))
        fields == hour.ok /\ minute.ok /\ second.ok
        valid == ValidTime(hour.v, minute.v, second.v)
        made(tz) == [ok |-> TRUE, err |-> "",
                     value |-> MkTime(hour.v, minute.v, second.v, tz),
                     params |-> set_tzid_param({<<"VALUE", "TIME">>},
                                               MkTime(hour.v, minute.v, second.v, tz))]
    IN  IF ~fields THEN [NoTemporal EXCEPT !.err = "ValueError"]
        ELSE IF tzinfo # ""
        THEN (IF valid /\ LocalizeTimeWorks(tzinfo) THEN made(tzinfo)
              ELSE [NoTemporal EXCEPT !.err = "ValueError"])
        ELSE IF SliceFrom(ical, 6) = <<>>
        THEN (IF valid THEN made("") ELSE [NoTemporal EXCEPT !.err = "ValueError"])
        ELSE IF Slice(ical, 6, 7) = <<"Z">>
        THEN (IF valid THEN made("UTC") ELSE [NoTemporal EXCEPT !.err = "ValueError"])
        ELSE [NoTemporal EXCEPT !.err = "ValueError"]

\* vDDDTypesFactory.__new__ as it would be with the date test in front of
\* the datetime test (a datetime is an instance of date).
vDDD_to_ical_date_first(value) ==
    CASE Kind(value) \in {"date", "datetime"} -> vDate_to_ical(value)
      [] Kind(value) = "time" -> vTime_to_ical(value)
      [] OTHER -> vDuration_to_ical(value)

\* vDDDTypesFactory.__new__: the encoder of the value's variant.
vDDD_to_ical(value) ==
    CASE Kind(value) = "datetime" -> vDatetime_to_ical(value)
      [] Kind(value) = "date" -> vDate_to_ical(value)
      [] Kind(value) = "time" -> vTime_to_ical(value)
      [] OTHER -> vDuration_to_ical(value)

\* The texts decoded: a date part, a separator, a time part and a suffix,
\* each from well-formed and malformed samples, and duration texts.
TextDates == {<<>>, <<"2", "0", "2", "3", "0", "1", "0", "1">>,
              <<"2", "0", "2", "4", "0", "2", "2", "9">>,
              <<"2", "0", "2", "3", "0", "2", "2", "9">>,
              <<"2", "0", "2", "3", "1", "3", "0", "1">>,
              <<"2", "0", "2", "3", "0", "1", "1">>,
              <<"2", "_", "2", "3", "0", "1", "0", "1">>}
TextSeparators == {<<>>, <<"T">>, <<"X">>}
TextTimes == {<<>>, <<"1", "2", "0", "0", "0", "0">>,
              <<"2", "3", "5", "9", "5", "9">>,
              <<"2", "5", "0", "0", "0", "0">>, <<"1", "2", "0", "0">>,
              <<"\f", "1", "2", "0", "0", "0">>}
TextSuffixes == {<<>>, <<"Z">>, <<"+", "0", "1", "0", "0">>, <<"Z", "Z">>}
TemporalTexts ==
    {d \o x \o t \o z : d \in TextDates, x \in TextSeparators,
                        t \in TextTimes, z \in TextSuffixes}
DurationTexts == {<<"P", "1", "D">>, <<"-", "P", "1", "D">>, <<"p", "1", "d">>,
                  <<"-", "p", "T", "5", "M">>, <<"+", "P", "1", "D">>,
                  <<"P", "T", "5", "M">>, <<"P", "7", "W">>, <<"P", "1", "X">>,
                  <<"P">>, <<"-", "P", "2", "0", "2", "3">>}
\* The timezone argument: "" (none given), zones pytz knows, and one it
\* does not.
TimezoneArgs == {"", "UTC", "Europe/Vienna", "America/New_York", "Mars/Phobos"}

TemporalInit ==
    /\ duration = DurationIdle
    /\ utcoffset = UTCOffsetIdle
    /\ weekday = WeekdayIdle
    /\ period = PeriodIdle
    /\ PropertyValue_params = Parameters
    /\ types_factory = TypesFactoryIdle
    /\ ddd_list = DDDListsIdle
    /\ instances = <<>>
    /\ recur = RecurIdle
    /\ ddd = DDDIdle
    /\ temporal \in
          {[TemporalIdle EXCEPT !.pc = "text", !.cls = c, !.ical = t, !.timezone = z]
           : c \in {"vDatetime", "vDate", "vTime"}, t \in TemporalTexts,
             z \in TimezoneArgs}

\* vDatetime.from_ical(ical, timezone)
DatetimeFromIcal ==
    /\ temporal.pc = "text" /\ temporal.cls = "vDatetime"
    /\ temporal' = [temporal EXCEPT
                       !.pc = "decoded",
                       !.decoded = vDatetime_from_ical(temporal.ical, temporal.timezone)]
    /\ UNCHANGED <<duration, utcoffset, weekday, period, PropertyValue_params,
                   instances, ddd,
                   recur, ddd_list,
                   types_factory>>

\* vDate.from_ical(ical)
DateFromIcal ==
    /\ temporal.pc = "text" /\ temporal.cls = "vDate"
    /\ temporal' = [temporal EXCEPT !.pc = "decoded",
                                    !.decoded = vDate_from_ical(temporal.ical)]
    /\ UNCHANGED <<duration, utcoffset, weekday, period, PropertyValue_params,
                   instances, ddd,
                   recur, ddd_list,
                   types_factory>>

\* vTime.from_ical(ical, timezone)
TimeFromIcal ==
    /\ temporal.pc = "text" /\ temporal.cls = "vTime"
    /\ temporal' = [temporal EXCEPT
                       !.pc = "decoded",
                       !.decoded = vTime_from_ical(temporal.ical, temporal.timezone)]
    /\ UNCHANGED <<duration, utcoffset, weekday, period, PropertyValue_params,
                   instances, ddd,
                   recur, ddd_list,
                   types_factory>>

\* _to_ical() of the decoded value
TemporalToIcal ==
    /\ temporal.pc = "decoded"
    /\ temporal.decoded.ok
    /\ temporal' = [temporal EXCEPT !.pc = "encoded",
                                    !.encoded = vDDD_to_ical(temporal.decoded.value)]
    /\ UNCHANGED <<duration, utcoffset, weekday, period, PropertyValue_params,
                   instances, ddd,
                   recur, ddd_list,
                   types_factory>>

TemporalNext == DatetimeFromIcal \/ DateFromIcal \/ TimeFromIcal \/ TemporalToIcal

SpecTemporal == TemporalInit /\ [][TemporalNext]_vars

\* The texts C7 calls well formed: YYYYMMDDTHHMMSS of a real date and time,
\* with nothing or a single Z after it.
WellFormedDatetimeText(t) ==
    /\ Len(t) \in {15, 16}
    /\ AllDigits(SubSeq(t, 1, 8)) /\ t[9] = "T" /\ AllDigits(SubSeq(t, 10, 15))
    /\ Len(t) = 16 => t[16] = "Z"
    /\ ValidDate(DigitsValue(SubSeq(t, 1, 4)), DigitsValue(SubSeq(t, 5, 6)),
                 DigitsValue(SubSeq(t, 7, 8)))
    /\ ValidTime(DigitsValue(SubSeq(t, 10, 11)), DigitsValue(SubSeq(t, 12, 13)),
                 DigitsValue(SubSeq(t, 14, 15)))

\* C7 as stated: any timezone identifier supplied puts the result in that
\* zone; without one, no marker gives a naive result and Z gives UTC.
C7_ZoneSelection ==
    (/\ temporal.pc = "decoded" /\ temporal.cls = "vDatetime"
     /\ WellFormedDatetimeText(temporal.ical) /\ temporal.decoded.ok) =>
        IF temporal.timezone # ""
        THEN temporal.decoded.value.tz = temporal.timezone
        ELSE IF Len(temporal.ical) = 15
        THEN temporal.decoded.value.tz = ""
        ELSE temporal.decoded.value.tz = "UTC"

\* C7 (amended): a timezone identifier that pytz knows puts the result in
\* that zone; with none, or with one pytz does not know, no marker gives a
\* naive result and a trailing Z gives UTC.
C7_ZoneSelectionKnownZones ==
    (/\ temporal.pc = "decoded" /\ temporal.cls = "vDatetime"
     /\ WellFormedDatetimeText(temporal.ical)) =>
        /\ temporal.decoded.ok
        /\ IF temporal.timezone \in {"UTC", "Europe/Vienna", "America/New_York"}
           THEN temporal.decoded.value.tz = temporal.timezone
           ELSE IF Len(temporal.ical) = 15
           THEN temporal.decoded.value.tz = ""
           ELSE temporal.decoded.value.tz = "UTC"

\* A text with a trailing Z has been decoded with a zone supplied, and the
\* result is in the supplied zone.
C7_Witness ==
    /\ temporal.pc = "decoded" /\ temporal.cls = "vDatetime"
    /\ WellFormedDatetimeText(temporal.ical)
    /\ Len(temporal.ical) = 16
    /\ temporal.timezone = "Europe/Vienna"
    /\ temporal.decoded.ok
    /\ temporal.decoded.value.tz = "Europe/Vienna"

----------------------------------------------------------------------------
(* vDDDTypesFactory.from_ical                                              *)

\* The test in front of the duration branch as it would be on the text as
\* written, without upper().
IsDurationText_cased(ical) ==
    StartsWith(ical, <<"-", "P">>) \/ StartsWith(ical, <<"P">>)

\* u = ical.upper(); u.startswith('-P') or u.startswith('P')
IsDurationText(ical) ==
    LET u == Upper(ical)
    IN  StartsWith(u, <<"-", "P">>) \/ StartsWith(u, <<"P">>)

\* vDuration.from_ical as the dispatcher sees it: a value or ValueError.
\* vDuration assigns no params, so those of the value returned are the class
\* attribute PropertyValue.params as it stands.
DDDDuration(ical) ==
    LET returned(r) ==
            IF r.ok THEN [ok |-> TRUE, err |-> "", value |-> r.value,
                          params |-> PropertyValue_params]
            ELSE [NoTemporal EXCEPT !.err = r.err]
    IN  returned(vDuration_from_ical(ical))

\* try: return a  except ValueError: return b
TryElse(a, b) == IF a.ok THEN a ELSE b

\* vDDDTypesFactory.from_ical, start to end.
vDDDTypesFactory_from_ical(ical, timezone) ==
    IF IsDurationText(ical) THEN DDDDuration(ical)
    ELSE TryElse(vDatetime_from_ical(ical, timezone),
                 TryElse(vDate_from_ical(ical), vTime_from_ical(ical, "")))

DDDTexts == TemporalTexts \cup DurationTexts

DDDInit ==
    /\ duration = DurationIdle
    /\ utcoffset = UTCOffsetIdle
    /\ weekday = WeekdayIdle
    /\ period = PeriodIdle
    /\ PropertyValue_params = Parameters
    /\ types_factory = TypesFactoryIdle
    /\ ddd_list = DDDListsIdle
    /\ instances = <<>>
    /\ recur = RecurIdle
    /\ temporal = TemporalIdle
    /\ ddd \in {[DDDIdle EXCEPT !.pc = "call", !.ical = t, !.timezone = z]
                : t \in DDDTexts, z \in TimezoneArgs}

\* The duration branch: taken on the prefix alone, it returns or raises
\* whatever vDuration.from_ical does.
DDDTryDuration ==
    /\ ddd.pc = "call"
    /\ ddd.type = "str"
    /\ IsDurationText(ddd.ical)
    /\ ddd' = [ddd EXCEPT !.pc = "done",
                          !.tried = Append(ddd.tried, "vDuration"),
                          !.result = DDDDuration(ddd.ical)]
    /\ UNCHANGED <<duration, utcoffset, weekday, period, PropertyValue_params,
                   instances, temporal,
                   recur, ddd_list,
                   types_factory>>

\* try: return vDatetime.from_ical(ical, timezone=timezone)
DDDTryDatetime ==
    /\ ddd.pc = "call"
    /\ ddd.type = "str"
    /\ ~IsDurationText(ddd.ical)
    /\ LET r == vDatetime_from_ical(ddd.ical, ddd.timezone)
       IN  ddd' = [ddd EXCEPT !.pc = IF r.ok THEN "done" ELSE "except_datetime",
                              !.tried = Append(ddd.tried, "vDatetime"),
                              !.result = IF r.ok THEN r ELSE ddd.result]
    /\ UNCHANGED <<duration, utcoffset, weekday, period, PropertyValue_params,
                   instances, temporal,
                   recur, ddd_list,
                   types_factory>>

\* except ValueError: try: return vDate.from_ical(ical)
DDDTryDate ==
    /\ ddd.pc = "except_datetime"
    /\ LET r == vDate_from_ical(ddd.ical)
       IN  ddd' = [ddd EXCEPT !.pc = IF r.ok THEN "done" ELSE "except_date",
                              !.tried = Append(ddd.tried, "vDate"),
                              !.result = IF r.ok THEN r ELSE ddd.result]
    /\ UNCHANGED <<duration, utcoffset, weekday, period, PropertyValue_params,
                   instances, temporal,
                   recur, ddd_list,
                   types_factory>>

\* except ValueError: return vTime.from_ical(ical)
DDDTryTime ==
    /\ ddd.pc = "except_date"
    /\ ddd' = [ddd EXCEPT !.pc = "done",
                          !.tried = Append(ddd.tried, "vTime"),
                          !.result = vTime_from_ical(ddd.ical, "")]
    /\ UNCHANGED <<duration, utcoffset, weekday, period, PropertyValue_params,
                   instances, temporal,
                   recur, ddd_list,
                   types_factory>>

DDDNext == DDDTryDuration \/ DDDTryDatetime \/ DDDTryDate \/ DDDTryTime

SpecDDD == DDDInit /\ [][DDDNext]_vars

\* The text starts with P or -P, in either case.
StartsLikeDuration(t) ==
    \/ Len(t) >= 1 /\ t[1] \in {"P", "p"}
    \/ Len(t) >= 2 /\ t[1] = "-" /\ t[2] \in {"P", "p"}

\* The candidates in the order the dispatcher is to try them.
CandidateOrder == <<"vDatetime", "vDate", "vTime">>

\* What candidate c makes of the call's text.
CandidateOutcome(c) ==
    CASE c = "vDatetime" -> vDatetime_from_ical(ddd.ical, ddd.timezone)
      [] c = "vDate" -> vDate_from_ical(ddd.ical)
      [] c = "vTime" -> vTime_from_ical(ddd.ical, "")

\* C8: text starting with P or -P in either case is decoded only as a
\* duration; any other text is tried as datetime, then date, then time, a
\* candidate being tried only when every one before it failed; the call
\* returns the first success and raises only when all three have failed;
\* until then no failure has surfaced.
C8_DispatchOrder ==
    /\ ddd.pc \notin {"idle", "call"} =>
          IF StartsLikeDuration(ddd.ical)
          THEN /\ ddd.tried = <<"vDuration">>
               /\ ddd.pc = "done"
               /\ ddd.result = DDDDuration(ddd.ical)
          ELSE /\ Len(ddd.tried) \in 1..3
               /\ ddd.tried = SubSeq(CandidateOrder, 1, Len(ddd.tried))
               /\ \A i \in 1..(Len(ddd.tried) - 1) :
                     ~CandidateOutcome(CandidateOrder[i]).ok
               /\ ddd.pc = "done" =>
                     /\ ddd.result = CandidateOutcome(ddd.tried[Len(ddd.tried)])
                     /\ ~ddd.result.ok =>
                           /\ Len(ddd.tried) = 3
                           /\ \A i \in 1..3 : ~CandidateOutcome(CandidateOrder[i]).ok
               /\ ddd.pc # "done" =>
                     /\ ~CandidateOutcome(ddd.tried[Len(ddd.tried)]).ok
                     /\ ddd.result = NoTemporal

\* A text that is no datetime has come back as a date: the datetime
\* attempt failed, was swallowed, and the date attempt succeeded.
C8_Witness ==
    /\ ddd.pc = "done"
    /\ ddd.tried = <<"vDatetime", "vDate">>
    /\ ddd.result.ok
    /\ Kind(ddd.result.value) = "date"

----------------------------------------------------------------------------
(* vInt, vFrequency, vText                                                 *)

NoValue == [ok |-> FALSE, err |-> "", value |-> <<>>]

\* vInt.from_ical: int(ical), any failure a ValueError.
vInt_from_ical(ical) ==
    LET made(n) == IF n.ok THEN [ok |-> TRUE, err |-> "", value |-> n.v]
                   ELSE [NoValue EXCEPT !.err = "ValueError"]
    IN  made(PyInt(ical))

\* vInt._to_ical
vInt_to_ical(value) == FormatD(value)

\* vFrequency.frequencies: the keys of the case-insensitive table.
frequencies == {<<"S", "E", "C", "O", "N", "D", "L", "Y">>,
                <<"M", "I", "N", "U", "T", "E", "L", "Y">>,
                <<"H", "O", "U", "R", "L", "Y">>,
                <<"D", "A", "I", "L", "Y">>,
                <<"W", "E", "E", "K", "L", "Y">>,
                <<"M", "O", "N", "T", "H", "L", "Y">>,
                <<"Y", "E", "A", "R", "L", "Y">>}

\* vFrequency.__init__
vFrequency_init(value) ==
    IF Upper(value) \in frequencies THEN [ok |-> TRUE, err |-> "", value |-> value]
    ELSE [NoValue EXCEPT !.err = "ValueError"]

\* vFrequency.from_ical
vFrequency_from_ical(ical) == vFrequency_init(Upper(ical))

\* vFrequency._to_ical
vFrequency_to_ical(value) == Upper(value)

\* unescape_char of the escaping primitive: a backslash before one of the
\* special characters gives that character, and \n or \N a line break.
RECURSIVE unescape_char(_)
unescape_char(text) ==
    IF text = <<>> THEN <<>>
    ELSE IF text[1] = "\\" /\ Len(text) >= 2 /\ text[2] \in {",", ";", "\\"}
    THEN <<text[2]>> \o unescape_char(SubSeq(text, 3, Len(text)))
    ELSE IF text[1] = "\\" /\ Len(text) >= 2 /\ text[2] \in {"n", "N"}
    THEN <<"\n">> \o unescape_char(SubSeq(text, 3, Len(text)))
    ELSE <<text[1]>> \o unescape_char(Tail(text))

\* vText.from_ical
vText_from_ical(ical) == [ok |-> TRUE, err |-> "", value |-> unescape_char(ical)]

----------------------------------------------------------------------------
(* vRecur                                                                  *)

\* str.split(sep) for a one-character separator
RECURSIVE Split(_, _)
Split(s, sep) ==
    IF \A i \in 1..Len(s) : s[i] # sep THEN <<s>>
    ELSE LET p == CHOOSE i \in 1..Len(s) :
                     s[i] = sep /\ \A j \in 1..(i - 1) : s[j] # sep
         IN  <<SubSeq(s, 1, p - 1)>> \o Split(SubSeq(s, p + 1, Len(s)), sep)

\* sep.join(parts)
RECURSIVE Join(_, _)
Join(parts, sep) ==
    IF parts = <<>> THEN <<>>
    ELSE IF Len(parts) = 1 THEN parts[1]
    ELSE parts[1] \o <<sep>> \o Join(Tail(parts), sep)

\* vRecur.canonical_order as it would be with UNTIL in front of FREQ.
canonical_order_until_first ==
    <<<<"U", "N", "T", "I", "L">>,
      <<"F", "R", "E", "Q">>,
      <<"C", "O", "U", "N", "T">>,
      <<"I", "N", "T", "E", "R", "V", "A", "L">>,
      <<"B", "Y", "S", "E", "C", "O", "N", "D">>,
      <<"B", "Y", "M", "I", "N", "U", "T", "E">>,
      <<"B", "Y", "H", "O", "U", "R">>,
      <<"B", "Y", "D", "A", "Y">>,
      <<"B", "Y", "M", "O", "N", "T", "H", "D", "A", "Y">>,
      <<"B", "Y", "Y", "E", "A", "R", "D", "A", "Y">>,
      <<"B", "Y", "W", "E", "E", "K", "N", "O">>,
      <<"B", "Y", "M", "O", "N", "T", "H">>,
      <<"B", "Y", "S", "E", "T", "P", "O", "S">>,
      <<"W", "K", "S", "T">>>>

\* vRecur.canonical_order
canonical_order ==
    <<<<"F", "R", "E", "Q">>,
      <<"U", "N", "T", "I", "L">>,
      <<"C", "O", "U", "N", "T">>,
      <<"I", "N", "T", "E", "R", "V", "A", "L">>,
      <<"B", "Y", "S", "E", "C", "O", "N", "D">>,
      <<"B", "Y", "M", "I", "N", "U", "T", "E">>,
      <<"B", "Y", "H", "O", "U", "R">>,
      <<"B", "Y", "D", "A", "Y">>,
      <<"B", "Y", "M", "O", "N", "T", "H", "D", "A", "Y">>,
      <<"B", "Y", "Y", "E", "A", "R", "D", "A", "Y">>,
      <<"B", "Y", "W", "E", "E", "K", "N", "O">>,
      <<"B", "Y", "M", "O", "N", "T", "H">>,
      <<"B", "Y", "S", "E", "T", "P", "O", "S">>,
      <<"W", "K", "S", "T">>>>

\* vRecur.types: the sub-codec of each rule part that has one.
TypedKeys ==
    {<<"C", "O", "U", "N", "T">>,
     <<"I", "N", "T", "E", "R", "V", "A", "L">>,
     <<"B", "Y", "S", "E", "C", "O", "N", "D">>,
     <<"B", "Y", "M", "I", "N", "U", "T", "E">>,
     <<"B", "Y", "H", "O", "U", "R">>,
     <<"B", "Y", "M", "O", "N", "T", "H", "D", "A", "Y">>,
     <<"B", "Y", "Y", "E", "A", "R", "D", "A", "Y">>,
     <<"B", "Y", "M", "O", "N", "T", "H">>,
     <<"U", "N", "T", "I", "L">>,
     <<"B", "Y", "S", "E", "T", "P", "O", "S">>,
     <<"W", "K", "S", "T">>,
     <<"B", "Y", "D", "A", "Y">>,
     <<"F", "R", "E", "Q">>}
types(key) ==
    CASE key \in {<<"C", "O", "U", "N", "T">>,
                  <<"I", "N", "T", "E", "R", "V", "A", "L">>,
                  <<"B", "Y", "S", "E", "C", "O", "N", "D">>,
                  <<"B", "Y", "M", "I", "N", "U", "T", "E">>,
                  <<"B", "Y", "H", "O", "U", "R">>,
                  <<"B", "Y", "M", "O", "N", "T", "H", "D", "A", "Y">>,
                  <<"B", "Y", "Y", "E", "A", "R", "D", "A", "Y">>,
                  <<"B", "Y", "M", "O", "N", "T", "H">>,
                  <<"B", "Y", "S", "E", "T", "P", "O", "S">>} -> "vInt"
      [] key = <<"U", "N", "T", "I", "L">> -> "vDDDTypesFactory"
      [] key \in {<<"W", "K", "S", "T">>, <<"B", "Y", "D", "A", "Y">>} -> "vWeekday"
      [] key = <<"F", "R", "E", "Q">> -> "vFrequency"

\* types.get(key, vText): the lookup is case-insensitive.
types_get(key) == IF Upper(key) \in TypedKeys THEN types(Upper(key)) ELSE "vText"

\* CaselessDict: a rule is the sequence of its items, each an upper-cased
\* key with its list of values.
DictKeys(rule) == {rule[i].key : i \in 1..Len(rule)}
DictHas(rule, key) == Upper(key) \in DictKeys(rule)
DictGet(rule, key) == rule[CHOOSE i \in 1..Len(rule) : rule[i].key = Upper(key)].vals

\* CaselessDict.__setitem__
DictSet(rule, key, vals) ==
    IF DictHas(rule, key)
    THEN [i \in 1..Len(rule) |->
             IF rule[i].key = Upper(key) THEN [key |-> Upper(key), vals |-> vals]
             ELSE rule[i]]
    ELSE Append(rule, [key |-> Upper(key), vals |-> vals])

\* CaselessDict.sorted_items: the items whose keys are in the canonical
\* order, in that order, and after them the items under any other key.
sorted_items(rule) ==
    LET known == SelectSeq(canonical_order, LAMBDA k : k \in DictKeys(rule))
        other(item) == \A i \in 1..Len(canonical_order) : canonical_order[i] # item.key
    IN  [i \in 1..Len(known) |-> [key |-> known[i], vals |-> DictGet(rule, known[i])]]
        \o SelectSeq(rule, other)

\* from_ical(v).value of a sub-codec: the value, or the ValueError raised.
ValueOf(r) ==
    IF r.ok THEN [ok |-> TRUE, err |-> "", value |-> r.value]
    ELSE [NoValue EXCEPT !.err = "ValueError"]

\* parser.from_ical(v).value for the sub-codec named.
SubDecode(parser, v) ==
    CASE parser = "vInt" -> ValueOf(vInt_from_ical(v))
      [] parser = "vWeekday" -> ValueOf(vWeekday_from_ical(v))
      [] parser = "vFrequency" -> ValueOf(vFrequency_from_ical(v))
      [] parser = "vDDDTypesFactory" -> ValueOf(vDDDTypesFactory_from_ical(v, ""))
      [] OTHER -> ValueOf(vText_from_ical(v))

\* vRecur.parse_type
parse_type(key, values) ==
    LET parser == types_get(key)
        parts == Split(values, ",")
        each == [i \in 1..Len(parts) |-> SubDecode(parser, parts[i])]
    IN  IF \A i \in 1..Len(parts) : each[i].ok
        THEN [ok |-> TRUE, err |-> "",
              value |-> [i \in 1..Len(parts) |-> each[i].value]]
        ELSE [NoValue EXCEPT !.err = "ValueError"]

\* The loop of vRecur.from_ical as it would be if a segment that does not
\* decode were passed over.
RECURSIVE FromIcalLoop_lenient(_, _)
FromIcalLoop_lenient(segments, rule) ==
    LET set(key, parsed) ==
            IF ~parsed.ok THEN FromIcalLoop_lenient(Tail(segments), rule)
            ELSE FromIcalLoop_lenient(Tail(segments), DictSet(rule, key, parsed.value))
        unpack(pair) ==
            IF Len(pair) # 2 THEN FromIcalLoop_lenient(Tail(segments), rule)
            ELSE set(pair[1], parse_type(pair[1], pair[2]))
    IN  IF segments = <<>> THEN [ok |-> TRUE, err |-> "", rule |-> rule, msg |-> <<>>]
        ELSE unpack(Split(segments[1], "="))

\* The loop of vRecur.from_ical over the segments left, on the rule so far.
RECURSIVE FromIcalLoop(_, _)
FromIcalLoop(segments, rule) ==
    LET set(key, parsed) ==
            IF ~parsed.ok THEN [NoRecur EXCEPT !.err = "ValueError"]
            ELSE FromIcalLoop(Tail(segments), DictSet(rule, key, parsed.value))
        unpack(pair) ==
            IF Len(pair) # 2 THEN [NoRecur EXCEPT !.err = "ValueError"]
            ELSE set(pair[1], parse_type(pair[1], pair[2]))
    IN  IF segments = <<>> THEN [ok |-> TRUE, err |-> "", rule |-> rule, msg |-> <<>>]
        ELSE unpack(Split(segments[1], "="))

\* vRecur.from_ical: the rule, or for anything raised inside a ValueError
\* whose message is built from the text (msg is the text it names).
vRecur_from_ical(ical) ==
    LET returned(r) == IF r.ok THEN r ELSE [r EXCEPT !.err = "ValueError", !.msg = ical]
    IN  returned(FromIcalLoop(Split(ical, ";"), <<>>))

\* typ(val)._to_ical() for the sub-codec named.
SubEncode(typ, val) ==
    CASE typ = "vInt" -> vInt_to_ical(val)
      [] typ = "vWeekday" -> vWeekday_to_ical(val)
      [] typ = "vFrequency" -> vFrequency_to_ical(val)
      [] typ = "vDDDTypesFactory" -> vDDD_to_ical(val)

\* vRecur._to_ical: the text, or KeyError at the first item whose key has
\* no entry in types.
vRecur_to_ical(rule) ==
    LET items == sorted_items(rule)
        group(item) ==
            item.key \o <<"=">>
            \o Join([i \in 1..Len(item.vals) |->
                        SubEncode(types(item.key), item.vals[i])], ",")
    IN  IF \E i \in 1..Len(items) : items[i].key \notin TypedKeys
        THEN [NoText EXCEPT !.err = "KeyError"]
        ELSE [ok |-> TRUE, err |-> "",
              text |-> Join([i \in 1..Len(items) |-> group(items[i])], ";")]

\* The rule texts decoded: up to MaxParts different segments, joined with
\* ";" in any order.
MaxParts == 3
RecurSegments ==
    {<<"F", "R", "E", "Q", "=", "D", "A", "I", "L", "Y">>,
     <<"B", "Y", "D", "A", "Y", "=", "M", "O">>,
     <<"b", "y", "d", "a", "y", "=", "t", "u", ",", "-", "1", "f", "r">>,
     <<"C", "O", "U", "N", "T", "=", "1", "0">>,
     <<"C", "O", "U", "N", "T", "=", "1", "_", "0">>,
     <<"I", "N", "T", "E", "R", "V", "A", "L", "=", "2">>,
     <<"U", "N", "T", "I", "L", "=", "2", "0", "2", "3", "0", "1", "0", "1", "T", "1", "2", "0", "0", "0", "0", "Z">>,
     <<"U", "N", "T", "I", "L", "=", "2", "0", "2", "3", "0", "1", "0", "1">>,
     <<"B", "Y", "W", "E", "E", "K", "N", "O", "=", "1">>,
     <<"W", "K", "S", "T", "=", "S", "U">>,
     <<"B", "Y", "M", "O", "N", "T", "H", "=", "1", ",", "1", "2">>,
     <<"B", "Y", "S", "E", "C", "O", "N", "D", "=", "0">>,
     <<"B", "Y", "M", "I", "N", "U", "T", "E", "=", "3", "0">>,
     <<"B", "Y", "H", "O", "U", "R", "=", "9">>,
     <<"B", "Y", "M", "O", "N", "T", "H", "D", "A", "Y", "=", "-", "1">>,
     <<"B", "Y", "Y", "E", "A", "R", "D", "A", "Y", "=", "1", "0", "0">>,
     <<"B", "Y", "S", "E", "T", "P", "O", "S", "=", "1">>,
     <<"X", "-", "P", "A", "R", "T", "=", "a">>,
     <<"C", "O", "U", "N", "T", "=", "1", "=", "2">>,
     <<"F", "R", "E", "Q", "=", "N", "E", "V", "E", "R">>,
     <<>>}
RecurTexts ==
    UNION {{Join(f, ";") : f \in {g \in [1..n -> RecurSegments] :
                                     \A i, j \in 1..n : g[i] = g[j] => i = j}}
           : n \in 1..MaxParts}

RecurInit ==
    /\ duration = DurationIdle
    /\ utcoffset = UTCOffsetIdle
    /\ weekday = WeekdayIdle
    /\ period = PeriodIdle
    /\ PropertyValue_params = Parameters
    /\ types_factory = TypesFactoryIdle
    /\ ddd_list = DDDListsIdle
    /\ instances = <<>>
    /\ temporal = TemporalIdle
    /\ ddd = DDDIdle
    /\ recur \in {[RecurIdle EXCEPT !.pc = "text", !.ical = t] : t \in RecurTexts}

\* vRecur.from_ical(ical)
RecurFromIcal ==
    /\ recur.pc = "text"
    /\ recur' = [recur EXCEPT !.pc = "decoded", !.decoded = vRecur_from_ical(recur.ical)]
    /\ UNCHANGED <<duration, utcoffset, weekday, period, PropertyValue_params,
                   instances, temporal, ddd, ddd_list,
                   types_factory>>

\* _to_ical() of the decoded rule
RecurToIcal ==
    /\ recur.pc = "decoded"
    /\ recur.decoded.ok
    /\ recur' = [recur EXCEPT !.pc = "encoded",
                              !.encoded = vRecur_to_ical(recur.decoded.rule)]
    /\ UNCHANGED <<duration, utcoffset, weekday, period, PropertyValue_params,
                   instances, temporal, ddd, ddd_list,
                   types_factory>>

RecurNext == RecurFromIcal \/ RecurToIcal

SpecRecur == RecurInit /\ [][RecurNext]_vars

\* The order C2 names.
C2_Order ==
    <<<<"F", "R", "E", "Q">>,
      <<"U", "N", "T", "I", "L">>,
      <<"C", "O", "U", "N", "T">>,
      <<"I", "N", "T", "E", "R", "V", "A", "L">>,
      <<"B", "Y", "S", "E", "C", "O", "N", "D">>,
      <<"B", "Y", "M", "I", "N", "U", "T", "E">>,
      <<"B", "Y", "H", "O", "U", "R">>,
      <<"B", "Y", "D", "A", "Y">>,
      <<"B", "Y", "M", "O", "N", "T", "H", "D", "A", "Y">>,
      <<"B", "Y", "Y", "E", "A", "R", "D", "A", "Y">>,
      <<"B", "Y", "W", "E", "E", "K", "N", "O">>,
      <<"B", "Y", "M", "O", "N", "T", "H">>,
      <<"B", "Y", "S", "E", "T", "P", "O", "S">>,
      <<"W", "K", "S", "T">>>>

\* The keys of the groups of an encoded rule, in the order they stand.
GroupKeys(text) ==
    LET groups == Split(text, ";")
    IN  [i \in 1..Len(groups) |-> Split(groups[i], "=")[1]]

\* The rule with its items inserted in the order p.
Reinserted(rule, p) == [i \in 1..Len(rule) |-> rule[p[i]]]
Orders(n) == {p \in [1..n -> 1..n] : \A i, j \in 1..n : p[i] = p[j] => i = j}

\* The groups of the text a rule was encoded to stand in the order C2 names,
\* cut down to the keys the rule holds; the same parts inserted in any other
\* order give the same text; and FREQ, when held, is the first group.
InCanonicalOrder(rule, encoded) ==
    /\ GroupKeys(encoded.text) = SelectSeq(C2_Order, LAMBDA k : k \in DictKeys(rule))
    /\ \A p \in Orders(Len(rule)) : vRecur_to_ical(Reinserted(rule, p)) = encoded
    /\ <<"F", "R", "E", "Q">> \in DictKeys(rule) =>
          StartsWith(encoded.text, <<"F", "R", "E", "Q", "=">>)

\* C2: encoding a rule emits its KEY=values groups in the order FREQ, UNTIL,
\* COUNT, INTERVAL, BYSECOND, BYMINUTE, BYHOUR, BYDAY, BYMONTHDAY, BYYEARDAY,
\* BYWEEKNO, BYMONTH, BYSETPOS, WKST cut down to the keys the rule holds,
\* whatever the order the parts were inserted in, with FREQ first when held.
C2_CanonicalOrder ==
    recur.pc = "encoded" =>
        /\ recur.encoded.ok
        /\ InCanonicalOrder(recur.decoded.rule, recur.encoded)

\* The same for the rules that encode at all, which are those holding none
\* but keys of vRecur.types.
EncodedInCanonicalOrder ==
    (recur.pc = "encoded" /\ recur.encoded.ok) =>
        InCanonicalOrder(recur.decoded.rule, recur.encoded)

\* BYDAY=MO;FREQ=DAILY has been decoded and encoded as FREQ=DAILY;BYDAY=MO.
EncodedInCanonicalOrderWitness ==
    /\ recur.pc = "encoded"
    /\ recur.ical = <<"B", "Y", "D", "A", "Y", "=", "M", "O", ";", "F", "R", "E", "Q", "=", "D", "A", "I", "L", "Y">>
    /\ recur.encoded.ok
    /\ recur.encoded.text = <<"F", "R", "E", "Q", "=", "D", "A", "I", "L", "Y", ";", "B", "Y", "D", "A", "Y", "=", "M", "O">>

\* C12 as stated: every rule that decodes also encodes, with one group for
\* each part it holds.
C12_DecodedRulesEncode ==
    recur.pc = "encoded" =>
        /\ recur.encoded.ok
        /\ Len(GroupKeys(recur.encoded.text)) = Len(recur.decoded.rule)
        /\ \A k \in DictKeys(recur.decoded.rule) :
              \E i \in 1..Len(GroupKeys(recur.encoded.text)) :
                  GroupKeys(recur.encoded.text)[i] = k

\* The number of "=" in a segment, and the texts either side of the first.
EqualsIn(seg) == Cardinality({i \in 1..Len(seg) : seg[i] = "="})
KeyText(seg) == Split(seg, "=")[1]
ValueText(seg) == Split(seg, "=")[2]

\* The sub-values the key's sub-codec makes of a segment's value text.
SubValues(seg) ==
    LET tokens == Split(ValueText(seg), ",")
    IN  [i \in 1..Len(tokens) |-> SubDecode(types_get(KeyText(seg)), tokens[i])]

\* A segment is one KEY=VALUE pair whose every sub-token its sub-codec takes.
SegmentDecodes(seg) ==
    /\ EqualsIn(seg) = 1
    /\ \A i \in 1..Len(SubValues(seg)) : SubValues(seg)[i].ok

\* C13: a rule text with a segment that is no single KEY=VALUE pair, or with
\* a sub-token its sub-codec rejects, fails as a whole with a ValueError
\* naming the text, and no rule comes back; any other text decodes, its keys
\* are those of its segments, and each key holds the decoded sub-values of
\* the (last) segment under that key, in their textual order.
C13_DecodeAllOrNothing ==
    recur.pc \in {"decoded", "encoded"} =>
        LET segs == Split(recur.ical, ";")
        IN  IF \E i \in 1..Len(segs) : ~SegmentDecodes(segs[i])
            THEN /\ ~recur.decoded.ok
                 /\ recur.decoded.err = "ValueError"
                 /\ recur.decoded.msg = recur.ical
                 /\ recur.decoded.rule = <<>>
            ELSE /\ recur.decoded.ok
                 /\ DictKeys(recur.decoded.rule)
                       = {Upper(KeyText(segs[i])) : i \in 1..Len(segs)}
                 /\ Len(recur.decoded.rule) = Cardinality(DictKeys(recur.decoded.rule))
                 /\ \A i \in 1..Len(segs) :
                       (\A j \in (i + 1)..Len(segs) :
                            Upper(KeyText(segs[j])) # Upper(KeyText(segs[i])))
                       => DictGet(recur.decoded.rule, KeyText(segs[i]))
                             = [n \in 1..Len(SubValues(segs[i])) |->
                                   SubValues(segs[i])[n].value]

\* A text whose first segment decodes and whose second does not has been
\* refused as a whole.
C13_Witness ==
    /\ recur.pc = "decoded"
    /\ Len(Split(recur.ical, ";")) >= 2
    /\ SegmentDecodes(Split(recur.ical, ";")[1])
    /\ ~SegmentDecodes(Split(recur.ical, ";")[2])
    /\ ~recur.decoded.ok
    /\ recur.decoded.rule = <<>>

\* C14 as stated: a datetime text decodes only when nothing or a single Z
\* follows its 15 characters and a T stands at position 9, whatever the
\* timezone argument.
C14_DatetimeSuffixRejected ==
    (/\ temporal.pc = "decoded" /\ temporal.cls = "vDatetime"
     /\ temporal.decoded.ok) =>
        /\ Len(temporal.ical) \in {15, 16}
        /\ temporal.ical[9] = "T"
        /\ Len(temporal.ical) = 16 => temporal.ical[16] = "Z"

\* C15 as stated: a date text decodes only when it is exactly eight digits.
C15_DateExactWidth ==
    (/\ temporal.pc = "decoded" /\ temporal.cls = "vDate"
     /\ temporal.decoded.ok) =>
        /\ Len(temporal.ical) = 8
        /\ AllDigits(temporal.ical)

----------------------------------------------------------------------------
(* vDDDTypesFactory(value) encoded and read back by vDDDTypesFactory.from_ical *)

\* The native values encoded: dates, zone-naive and UTC datetimes and times,
\* and durations of whole seconds.
NativeDays == {<<1, 1, 1>>, <<999, 12, 31>>, <<1200, 1, 1>>, <<2023, 1, 1>>,
               <<2024, 2, 29>>, <<2023, 10, 11>>}
NativeClock == {<<0, 0, 0>>, <<12, 0, 0>>, <<20, 23, 1>>, <<10, 11, 12>>,
                <<23, 59, 59>>}
NativeZones == {"", "UTC"}
Natives ==
    {MkDate(d[1], d[2], d[3]) : d \in NativeDays}
    \cup {MkDatetime(d[1], d[2], d[3], c[1], c[2], c[3], z)
          : d \in NativeDays, c \in NativeClock, z \in NativeZones}
    \cup {MkTime(c[1], c[2], c[3], z) : c \in NativeClock, z \in NativeZones}
    \cup Durations

DDDNativeInit ==
    /\ duration = DurationIdle
    /\ utcoffset = UTCOffsetIdle
    /\ weekday = WeekdayIdle
    /\ period = PeriodIdle
    /\ PropertyValue_params = Parameters
    /\ types_factory = TypesFactoryIdle
    /\ ddd_list = DDDListsIdle
    /\ instances = <<>>
    /\ temporal = TemporalIdle
    /\ recur = RecurIdle
    /\ ddd \in {[DDDIdle EXCEPT !.pc = "native", !.native = v] : v \in Natives}

\* vDDDTypesFactory(value).to_ical(); what it returns then goes to from_ical
\* with no timezone.
DDDEncode ==
    /\ ddd.pc = "native"
    /\ LET ical == PropertyValue_to_ical(vDDD_to_ical(ddd.native))
       IN  ddd' = [ddd EXCEPT !.pc = "call", !.ical = ical.chars, !.type = ical.type,
                              !.timezone = ""]
    /\ UNCHANGED <<duration, utcoffset, weekday, period, PropertyValue_params,
                   instances, temporal, recur, ddd_list,
                   types_factory>>

\* vDDDTypesFactory(value)._to_ical(); the text then goes to from_ical with
\* no timezone.
DDDEncodeUnicode ==
    /\ ddd.pc = "native"
    /\ LET ical == Unicode(vDDD_to_ical(ddd.native))
       IN  ddd' = [ddd EXCEPT !.pc = "call", !.ical = ical.chars, !.type = ical.type,
                              !.timezone = ""]
    /\ UNCHANGED <<duration, utcoffset, weekday, period, PropertyValue_params,
                   instances, temporal, recur, ddd_list,
                   types_factory>>

\* u = ical.upper(); u.startswith('-P') on bytes: upper() gives bytes, and
\* startswith with a str prefix raises TypeError, which from_ical lets
\* through before any decoder is called.
DDDStartswithBytes ==
    /\ ddd.pc = "call"
    /\ ddd.type = "bytes"
    /\ ddd' = [ddd EXCEPT !.pc = "done",
                          !.result = [NoTemporal EXCEPT !.err = "TypeError"]]
    /\ UNCHANGED <<duration, utcoffset, weekday, period, PropertyValue_params,
                   instances, temporal, recur, ddd_list,
                   types_factory>>

DDDRoundTripNext ==
    \/ DDDEncode \/ DDDEncodeUnicode \/ DDDStartswithBytes
    \/ DDDTryDuration \/ DDDTryDatetime \/ DDDTryDate \/ DDDTryTime

SpecDDDRoundTrip == DDDNativeInit /\ [][DDDRoundTripNext]_vars

\* The decoder of a native value's variant.
VariantDecoder(v) ==
    CASE Kind(v) = "datetime" -> "vDatetime"
      [] Kind(v) = "date" -> "vDate"
      [] Kind(v) = "time" -> "vTime"
      [] OTHER -> "vDuration"

\* The decoder of the native value's variant was the last one called and
\* returned a value of that variant, equal to the one encoded.
VariantRoundTrip ==
    /\ ddd.result.ok
    /\ ddd.tried # <<>>
    /\ ddd.tried[Len(ddd.tried)] = VariantDecoder(ddd.native)
    /\ Kind(ddd.result.value) = Kind(ddd.native)
    /\ ddd.result.value = ddd.native

\* C18: what vDDDTypesFactory(v).to_ical() makes of a date, a zone-naive or
\* UTC datetime or time, or a whole-second duration is decoded, with no
\* timezone, by the decoder of the same variant, to a value equal to the
\* one encoded.
C18_VariantRoundTrip ==
    (ddd.pc = "done" /\ ddd.type = "bytes"
     /\ ddd.ical = vDDD_to_ical(ddd.native)) => VariantRoundTrip

\* The same round trip through the unicode text of _to_ical(), which the
\* dispatcher reads back through the decoder of the value's own variant.
DDDUnicodeRoundTrip ==
    (ddd.pc = "done" /\ ddd.type = "str"
     /\ ddd.ical = vDDD_to_ical(ddd.native)) => VariantRoundTrip

\* A UTC time has been encoded as text and has come back as the same time,
\* after the datetime and the date decoders refused its text.
DDDUnicodeWitness ==
    /\ ddd.pc = "done"
    /\ ddd.type = "str"
    /\ Kind(ddd.native) = "time"
    /\ ddd.native.tz = "UTC"
    /\ ddd.tried = <<"vDatetime", "vDate", "vTime">>
    /\ ddd.result.ok
    /\ ddd.result.value = ddd.native

\* C17 as stated: every period constructed encodes, as start/duration when
\* it was constructed from a duration and as start/end otherwise.
C17_PeriodEncodes ==
    period.pc = "encoded" =>
        /\ period.encoded.ok
        /\ Len(Split(period.encoded.text, "/")) = 2
        /\ Split(period.encoded.text, "/")[1] = vDDD_to_ical(period.self.start)
        /\ Split(period.encoded.text, "/")[2]
              = IF period.self.by_duration = 1
                THEN vDuration_to_ical(period.self.duration)
                ELSE vDDD_to_ical(period.self.end)

----------------------------------------------------------------------------
(* vDDDLists                                                               *)

\* params[key]
ParamsGet(params, key) == (CHOOSE q \in params : q[1] = key)[2]

\* vDDDTypesFactory(value): the instance made. vDatetime, vDate and vTime
\* assign their own params; vDuration assigns none.
vDDDTypesFactory_new(value) ==
    CASE Kind(value) = "datetime" ->
            [cls |-> "vDatetime", value |-> value, own |-> TRUE,
             params |-> set_tzid_param({<<"VALUE", "DATE-TIME">>}, value)]
      [] Kind(value) = "date" ->
            [cls |-> "vDate", value |-> value, own |-> TRUE,
             params |-> {<<"VALUE", "DATE">>}]
      [] Kind(value) = "time" ->
            [cls |-> "vTime", value |-> value, own |-> TRUE,
             params |-> set_tzid_param({<<"VALUE", "TIME">>}, value)]
      [] OTHER ->
            [cls |-> "vDuration", value |-> value, own |-> FALSE, params |-> {}]

\* vDDDLists.__init__ over a sequence of native values: self.params is
\* assigned only when some element's params shows a TZID.
vDDDLists_init(value) ==
    LET vDDD == [i \in 1..Len(value) |-> vDDDTypesFactory_new(value[i])]
        zoned == {i \in 1..Len(vDDD) : ParamsHas(ParamsOf(vDDD[i]), "TZID")}
        last == CHOOSE i \in zoned : \A j \in zoned : j <= i
    IN  IF zoned = {}
        THEN [ok |-> TRUE, err |-> "", value |-> vDDD, own |-> FALSE, params |-> {}]
        ELSE [ok |-> TRUE, err |-> "", value |-> vDDD, own |-> TRUE,
              params |-> {<<"TZID", ParamsGet(ParamsOf(vDDD[last]), "TZID")>>}]

\* vDDDLists.from_ical
vDDDLists_from_ical(ical, timezone) ==
    LET ical_dates == Split(ical, ",")
        each == [i \in 1..Len(ical_dates) |->
                    vDDDTypesFactory_from_ical(ical_dates[i], timezone)]
    IN  IF \E i \in 1..Len(each) : ~each[i].ok
        THEN [NoList EXCEPT !.err = "ValueError"]
        ELSE vDDDLists_init([i \in 1..Len(each) |-> each[i].value])

\* vDDDLists._to_ical
vDDDLists_to_ical(self) ==
    Join([i \in 1..Len(self.value) |-> vDDD_to_ical(self.value[i].value)], ",")

\* The list texts decoded: up to MaxListLen segments joined with ",".
MaxListLen == 3
ListSegments ==
    {<<"2", "0", "2", "3", "0", "1", "0", "1", "T", "1", "2", "0", "0", "0", "0">>,
     <<"2", "0", "2", "3", "0", "1", "0", "1", "T", "1", "2", "0", "0", "0", "0", "Z">>,
     <<"2", "0", "2", "3", "0", "1", "0", "1">>,
     <<"1", "2", "0", "0", "0", "0">>,
     <<"P", "1", "D">>,
     <<"2", "0", "2", "3", "1", "3", "0", "1">>,
     <<>>}
ListTexts ==
    UNION {{Join(f, ",") : f \in [1..n -> ListSegments]} : n \in 1..MaxListLen}
ListTimezones == {"", "Europe/Vienna", "America/New_York"}

DDDListsInit ==
    /\ duration = DurationIdle
    /\ utcoffset = UTCOffsetIdle
    /\ weekday = WeekdayIdle
    /\ period = PeriodIdle
    /\ PropertyValue_params = Parameters
    /\ types_factory = TypesFactoryIdle
    /\ instances = <<>>
    /\ temporal = TemporalIdle
    /\ ddd = DDDIdle
    /\ recur = RecurIdle
    /\ ddd_list \in {[DDDListsIdle EXCEPT !.pc = "text", !.ical = t, !.timezone = z]
                     : t \in ListTexts, z \in ListTimezones}

\* vPeriod((start, duration)) constructed before the list is decoded.
DDDListsPeriodBefore ==
    /\ ddd_list.pc = "text"
    /\ PropertyValue_params = Parameters
    /\ types_factory = TypesFactoryIdle
    /\ \E start \in ParamMoments :
          /\ vPeriod_init(start, ParamSpan).ok
          /\ PropertyValue_params' = set_tzid_param(PropertyValue_params, start)
          /\ PropertyValue_params' # PropertyValue_params
    /\ UNCHANGED <<duration, utcoffset, weekday, period, instances, temporal, ddd,
                   recur, ddd_list,
                   types_factory>>

\* vDDDLists.from_ical(ical, timezone)
DDDListsFromIcal ==
    /\ ddd_list.pc = "text"
    /\ ddd_list' = [ddd_list EXCEPT
                       !.pc = "decoded",
                       !.self = vDDDLists_from_ical(ddd_list.ical, ddd_list.timezone)]
    /\ UNCHANGED <<duration, utcoffset, weekday, period, PropertyValue_params,
                   instances, temporal, ddd, recur,
                   types_factory>>

\* _to_ical() of the decoded list
DDDListsToIcal ==
    /\ ddd_list.pc = "decoded"
    /\ ddd_list.self.ok
    /\ ddd_list' = [ddd_list EXCEPT !.pc = "encoded",
                                    !.encoded = vDDDLists_to_ical(ddd_list.self)]
    /\ UNCHANGED <<duration, utcoffset, weekday, period, PropertyValue_params,
                   instances, temporal, ddd, recur,
                   types_factory>>

DDDListsNext == DDDListsPeriodBefore \/ DDDListsFromIcal \/ DDDListsToIcal

SpecDDDLists == DDDListsInit /\ [][DDDListsNext]_vars

\* The elements of the list whose params shows a TZID.
ZonedElements(self) ==
    {i \in 1..Len(self.value) : ParamsHas(ParamsOf(self.value[i]), "TZID")}

\* C16 as stated: n segments give n elements in textual order, each what the
\* dispatcher makes of its segment under the shared timezone, or no list if
\* a segment fails; the list shows a TZID exactly when an element does, and
\* then the TZID of the last element that has one; the encoding is the
\* elements' encodings joined with ",".
C16_ListDecode ==
    ddd_list.pc \in {"decoded", "encoded"} =>
        LET segs == Split(ddd_list.ical, ",")
            self == ddd_list.self
            made(i) == vDDDTypesFactory_from_ical(segs[i], ddd_list.timezone)
        IN  IF \E i \in 1..Len(segs) : ~made(i).ok
            THEN ~self.ok
            ELSE /\ self.ok
                 /\ Len(self.value) = Len(segs)
                 /\ \A i \in 1..Len(segs) : self.value[i].value = made(i).value
                 /\ ParamsHas(ParamsOf(self), "TZID") <=> ZonedElements(self) # {}
                 /\ ZonedElements(self) # {} =>
                       \E i \in ZonedElements(self) :
                           /\ \A j \in ZonedElements(self) : j <= i
                           /\ {q \in ParamsOf(self) : q[1] = "TZID"}
                                 = {<<"TZID", ParamsGet(ParamsOf(self.value[i]), "TZID")>>}
                 /\ ddd_list.pc = "encoded" =>
                       ddd_list.encoded
                           = Join([i \in 1..Len(segs) |-> vDDD_to_ical(made(i).value)], ",")

----------------------------------------------------------------------------
(* TypesFactory                                                            *)

\* CaselessDict(items): the map holding the (key, value) pairs given, one
\* item for each upper-cased key, with the value given last for it.
CaselessDict(items) ==
    LET key(i) == Upper(items[i][1])
        first == SelectSeq([i \in 1..Len(items) |-> i],
                           LAMBDA i : \A j \in 1..(i - 1) : key(j) # key(i))
        last(i) == CHOOSE j \in i..Len(items) :
                       key(j) = key(i) /\ \A k \in (j + 1)..Len(items) : key(k) # key(i)
    IN  [n \in 1..Len(first) |->
            [key |-> key(first[n]), vals |-> items[last(first[n])][2]]]

\* CaselessDict.get(key, default)
DictGetOr(dict, key, default) == IF DictHas(dict, key) THEN DictGet(dict, key) ELSE default

\* TypesFactory.types_map
types_map ==
    CaselessDict(<<
        <<<<"c", "a", "l", "s", "c", "a", "l", "e">>, <<"t", "e", "x", "t">>>>,
        <<<<"m", "e", "t", "h", "o", "d">>, <<"t", "e", "x", "t">>>>,
        <<<<"p", "r", "o", "d", "i", "d">>, <<"t", "e", "x", "t">>>>,
        <<<<"v", "e", "r", "s", "i", "o", "n">>, <<"t", "e", "x", "t">>>>,
        <<<<"a", "t", "t", "a", "c", "h">>, <<"u", "r", "i">>>>,
        <<<<"c", "a", "t", "e", "g", "o", "r", "i", "e", "s">>, <<"t", "e", "x", "t">>>>,
        <<<<"c", "l", "a", "s", "s">>, <<"t", "e", "x", "t">>>>,
        <<<<"c", "o", "m", "m", "e", "n", "t">>, <<"t", "e", "x", "t">>>>,
        <<<<"d", "e", "s", "c", "r", "i", "p", "t", "i", "o", "n">>, <<"t", "e", "x", "t">>>>,
        <<<<"g", "e", "o">>, <<"g", "e", "o">>>>,
        <<<<"l", "o", "c", "a", "t", "i", "o", "n">>, <<"t", "e", "x", "t">>>>,
        <<<<"p", "e", "r", "c", "e", "n", "t", "-", "c", "o", "m", "p", "l", "e", "t", "e">>, <<"i", "n", "t", "e", "g", "e", "r">>>>,
        <<<<"p", "r", "i", "o", "r", "i", "t", "y">>, <<"i", "n", "t", "e", "g", "e", "r">>>>,
        <<<<"r", "e", "s", "o", "u", "r", "c", "e", "s">>, <<"t", "e", "x", "t">>>>,
        <<<<"s", "t", "a", "t", "u", "s">>, <<"t", "e", "x", "t">>>>,
        <<<<"s", "u", "m", "m", "a", "r", "y">>, <<"t", "e", "x", "t">>>>,
        <<<<"c", "o", "m", "p", "l", "e", "t", "e", "d">>, <<"d", "a", "t", "e", "-", "t", "i", "m", "e">>>>,
        <<<<"d", "t", "e", "n", "d">>, <<"d", "a", "t", "e", "-", "t", "i", "m", "e">>>>,
        <<<<"d", "u", "e">>, <<"d", "a", "t", "e", "-", "t", "i", "m", "e">>>>,
        <<<<"d", "t", "s", "t", "a", "r", "t">>, <<"d", "a", "t", "e", "-", "t", "i", "m", "e">>>>,
        <<<<"d", "u", "r", "a", "t", "i", "o", "n">>, <<"d", "u", "r", "a", "t", "i", "o", "n">>>>,
        <<<<"f", "r", "e", "e", "b", "u", "s", "y">>, <<"p", "e", "r", "i", "o", "d">>>>,
        <<<<"t", "r", "a", "n", "s", "p">>, <<"t", "e", "x", "t">>>>,
        <<<<"t", "z", "i", "d">>, <<"t", "e", "x", "t">>>>,
        <<<<"t", "z", "n", "a", "m", "e">>, <<"t", "e", "x", "t">>>>,
        <<<<"t", "z", "o", "f", "f", "s", "e", "t", "f", "r", "o", "m">>, <<"u", "t", "c", "-", "o", "f", "f", "s", "e", "t">>>>,
        <<<<"t", "z", "o", "f", "f", "s", "e", "t", "t", "o">>, <<"u", "t", "c", "-", "o", "f", "f", "s", "e", "t">>>>,
        <<<<"t", "z", "u", "r", "l">>, <<"u", "r", "i">>>>,
        <<<<"a", "t", "t", "e", "n", "d", "e", "e">>, <<"c", "a", "l", "-", "a", "d", "d", "r", "e", "s", "s">>>>,
        <<<<"c", "o", "n", "t", "a", "c", "t">>, <<"t", "e", "x", "t">>>>,
        <<<<"o", "r", "g", "a", "n", "i", "z", "e", "r">>, <<"c", "a", "l", "-", "a", "d", "d", "r", "e", "s", "s">>>>,
        <<<<"r", "e", "c", "u", "r", "r", "e", "n", "c", "e", "-", "i", "d">>, <<"d", "a", "t", "e", "-", "t", "i", "m", "e">>>>,
        <<<<"r", "e", "l", "a", "t", "e", "d", "-", "t", "o">>, <<"t", "e", "x", "t">>>>,
        <<<<"u", "r", "l">>, <<"u", "r", "i">>>>,
        <<<<"u", "i", "d">>, <<"t", "e", "x", "t">>>>,
        <<<<"e", "x", "d", "a", "t", "e">>, <<"d", "a", "t", "e", "-", "t", "i", "m", "e", "-", "l", "i", "s", "t">>>>,
        <<<<"e", "x", "r", "u", "l", "e">>, <<"r", "e", "c", "u", "r">>>>,
        <<<<"r", "d", "a", "t", "e">>, <<"d", "a", "t", "e", "-", "t", "i", "m", "e", "-", "l", "i", "s", "t">>>>,
        <<<<"r", "r", "u", "l", "e">>, <<"r", "e", "c", "u", "r">>>>,
        <<<<"a", "c", "t", "i", "o", "n">>, <<"t", "e", "x", "t">>>>,
        <<<<"r", "e", "p", "e", "a", "t">>, <<"i", "n", "t", "e", "g", "e", "r">>>>,
        <<<<"t", "r", "i", "g", "g", "e", "r">>, <<"d", "u", "r", "a", "t", "i", "o", "n">>>>,
        <<<<"c", "r", "e", "a", "t", "e", "d">>, <<"d", "a", "t", "e", "-", "t", "i", "m", "e">>>>,
        <<<<"d", "t", "s", "t", "a", "m", "p">>, <<"d", "a", "t", "e", "-", "t", "i", "m", "e">>>>,
        <<<<"l", "a", "s", "t", "-", "m", "o", "d", "i", "f", "i", "e", "d">>, <<"d", "a", "t", "e", "-", "t", "i", "m", "e">>>>,
        <<<<"s", "e", "q", "u", "e", "n", "c", "e">>, <<"i", "n", "t", "e", "g", "e", "r">>>>,
        <<<<"r", "e", "q", "u", "e", "s", "t", "-", "s", "t", "a", "t", "u", "s">>, <<"t", "e", "x", "t">>>>,
        <<<<"a", "l", "t", "r", "e", "p">>, <<"u", "r", "i">>>>,
        <<<<"c", "n">>, <<"t", "e", "x", "t">>>>,
        <<<<"c", "u", "t", "y", "p", "e">>, <<"t", "e", "x", "t">>>>,
        <<<<"d", "e", "l", "e", "g", "a", "t", "e", "d", "-", "f", "r", "o", "m">>, <<"c", "a", "l", "-", "a", "d", "d", "r", "e", "s", "s">>>>,
        <<<<"d", "e", "l", "e", "g", "a", "t", "e", "d", "-", "t", "o">>, <<"c", "a", "l", "-", "a", "d", "d", "r", "e", "s", "s">>>>,
        <<<<"d", "i", "r">>, <<"u", "r", "i">>>>,
        <<<<"e", "n", "c", "o", "d", "i", "n", "g">>, <<"t", "e", "x", "t">>>>,
        <<<<"f", "m", "t", "t", "y", "p", "e">>, <<"t", "e", "x", "t">>>>,
        <<<<"f", "b", "t", "y", "p", "e">>, <<"t", "e", "x", "t">>>>,
        <<<<"l", "a", "n", "g", "u", "a", "g", "e">>, <<"t", "e", "x", "t">>>>,
        <<<<"m", "e", "m", "b", "e", "r">>, <<"c", "a", "l", "-", "a", "d", "d", "r", "e", "s", "s">>>>,
        <<<<"p", "a", "r", "t", "s", "t", "a", "t">>, <<"t", "e", "x", "t">>>>,
        <<<<"r", "a", "n", "g", "e">>, <<"t", "e", "x", "t">>>>,
        <<<<"r", "e", "l", "a", "t", "e", "d">>, <<"t", "e", "x", "t">>>>,
        <<<<"r", "e", "l", "t", "y", "p", "e">>, <<"t", "e", "x", "t">>>>,
        <<<<"r", "o", "l", "e">>, <<"t", "e", "x", "t">>>>,
        <<<<"r", "s", "v", "p">>, <<"b", "o", "o", "l", "e", "a", "n">>>>,
        <<<<"s", "e", "n", "t", "-", "b", "y">>, <<"c", "a", "l", "-", "a", "d", "d", "r", "e", "s", "s">>>>,
        <<<<"t", "z", "i", "d">>, <<"t", "e", "x", "t">>>>,
        <<<<"v", "a", "l", "u", "e">>, <<"t", "e", "x", "t">>>>
    >>)

\* TypesFactory.__init__: the entries given, then the registrations.
TypesFactory_init(args) ==
    CaselessDict(args \o <<
        <<<<"b", "i", "n", "a", "r", "y">>, "vBinary">>,
        <<<<"b", "o", "o", "l", "e", "a", "n">>, "vBoolean">>,
        <<<<"c", "a", "l", "-", "a", "d", "d", "r", "e", "s", "s">>, "vCalAddress">>,
        <<<<"d", "a", "t", "e">>, "vDDDTypesFactory">>,
        <<<<"d", "a", "t", "e", "-", "t", "i", "m", "e">>, "vDDDTypesFactory">>,
        <<<<"d", "u", "r", "a", "t", "i", "o", "n">>, "vDDDTypesFactory">>,
        <<<<"f", "l", "o", "a", "t">>, "vFloat">>,
        <<<<"i", "n", "t", "e", "g", "e", "r">>, "vInt">>,
        <<<<"p", "e", "r", "i", "o", "d">>, "vPeriod">>,
        <<<<"r", "e", "c", "u", "r">>, "vRecur">>,
        <<<<"t", "e", "x", "t">>, "vText">>,
        <<<<"t", "i", "m", "e">>, "vDDDTypesFactory">>,
        <<<<"u", "r", "i">>, "vUri">>,
        <<<<"u", "t", "c", "-", "o", "f", "f", "s", "e", "t">>, "vUTCOffset">>,
        <<<<"g", "e", "o">>, "vGeo">>,
        <<<<"i", "n", "l", "i", "n", "e">>, "vInline">>,
        <<<<"d", "a", "t", "e", "-", "t", "i", "m", "e", "-", "l", "i", "s", "t">>, "vDDDLists">>
    >>)

\* TypesFactory.for_property as it would be with the name looked up as
\* written.
for_property_cased(self, name) ==
    LET hit == {i \in 1..Len(types_map) : types_map[i].key = name}
        key == IF hit = {} THEN <<"t", "e", "x", "t">>
               ELSE types_map[CHOOSE i \in hit : TRUE].vals
    IN  IF DictHas(self, key) THEN [ok |-> TRUE, err |-> "", codec |-> DictGet(self, key)]
        ELSE [NoCodec EXCEPT !.err = "KeyError"]

\* TypesFactory.for_property: self[self.types_map.get(name, 'text')]
for_property(self, name) ==
    LET key == DictGetOr(types_map, name, <<"t", "e", "x", "t">>)
    IN  IF DictHas(self, key) THEN [ok |-> TRUE, err |-> "", codec |-> DictGet(self, key)]
        ELSE [NoCodec EXCEPT !.err = "KeyError"]

\* The entries a factory is constructed with, and the names looked up: every
\* listed name as written, in upper case and capitalised, and unlisted ones.
FactoryArgs ==
    {<<>>, <<<<<<"x", "-", "t", "y", "p", "e">>, "vInline">>>>, <<<<<<"T", "E", "X", "T">>, "vInline">>>>}
LookupNames ==
    {<<"c", "a", "l", "s", "c", "a", "l", "e">>,
     <<"C", "A", "L", "S", "C", "A", "L", "E">>,
     <<"C", "a", "l", "s", "c", "a", "l", "e">>,
     <<"m", "e", "t", "h", "o", "d">>,
     <<"M", "E", "T", "H", "O", "D">>,
     <<"M", "e", "t", "h", "o", "d">>,
     <<"p", "r", "o", "d", "i", "d">>,
     <<"P", "R", "O", "D", "I", "D">>,
     <<"P", "r", "o", "d", "i", "d">>,
     <<"v", "e", "r", "s", "i", "o", "n">>,
     <<"V", "E", "R", "S", "I", "O", "N">>,
     <<"V", "e", "r", "s", "i", "o", "n">>,
     <<"a", "t", "t", "a", "c", "h">>,
     <<"A", "T", "T", "A", "C", "H">>,
     <<"A", "t", "t", "a", "c", "h">>,
     <<"c", "a", "t", "e", "g", "o", "r", "i", "e", "s">>,
     <<"C", "A", "T", "E", "G", "O", "R", "I", "E", "S">>,
     <<"C", "a", "t", "e", "g", "o", "r", "i", "e", "s">>,
     <<"c", "l", "a", "s", "s">>,
     <<"C", "L", "A", "S", "S">>,
     <<"C", "l", "a", "s", "s">>,
     <<"c", "o", "m", "m", "e", "n", "t">>,
     <<"C", "O", "M", "M", "E", "N", "T">>,
     <<"C", "o", "m", "m", "e", "n", "t">>,
     <<"d", "e", "s", "c", "r", "i", "p", "t", "i", "o", "n">>,
     <<"D", "E", "S", "C", "R", "I", "P", "T", "I", "O", "N">>,
     <<"D", "e", "s", "c", "r", "i", "p", "t", "i", "o", "n">>,
     <<"g", "e", "o">>,
     <<"G", "E", "O">>,
     <<"G", "e", "o">>,
     <<"l", "o", "c", "a", "t", "i", "o", "n">>,
     <<"L", "O", "C", "A", "T", "I", "O", "N">>,
     <<"L", "o", "c", "a", "t", "i", "o", "n">>,
     <<"p", "e", "r", "c", "e", "n", "t", "-", "c", "o", "m", "p", "l", "e", "t", "e">>,
     <<"P", "E", "R", "C", "E", "N", "T", "-", "C", "O", "M", "P", "L", "E", "T", "E">>,
     <<"P", "e", "r", "c", "e", "n", "t", "-", "c", "o", "m", "p", "l", "e", "t", "e">>,
     <<"p", "r", "i", "o", "r", "i", "t", "y">>,
     <<"P", "R", "I", "O", "R", "I", "T", "Y">>,
     <<"P", "r", "i", "o", "r", "i", "t", "y">>,
     <<"r", "e", "s", "o", "u", "r", "c", "e", "s">>,
     <<"R", "E", "S", "O", "U", "R", "C", "E", "S">>,
     <<"R", "e", "s", "o", "u", "r", "c", "e", "s">>,
     <<"s", "t", "a", "t", "u", "s">>,
     <<"S", "T", "A", "T", "U", "S">>,
     <<"S", "t", "a", "t", "u", "s">>,
     <<"s", "u", "m", "m", "a", "r", "y">>,
     <<"S", "U", "M", "M", "A", "R", "Y">>,
     <<"S", "u", "m", "m", "a", "r", "y">>,
     <<"c", "o", "m", "p", "l", "e", "t", "e", "d">>,
     <<"C", "O", "M", "P", "L", "E", "T", "E", "D">>,
     <<"C", "o", "m", "p", "l", "e", "t", "e", "d">>,
     <<"d", "t", "e", "n", "d">>,
     <<"D", "T", "E", "N", "D">>,
     <<"D", "t", "e", "n", "d">>,
     <<"d", "u", "e">>,
     <<"D", "U", "E">>,
     <<"D", "u", "e">>,
     <<"d", "t", "s", "t", "a", "r", "t">>,
     <<"D", "T", "S", "T", "A", "R", "T">>,
     <<"D", "t", "s", "t", "a", "r", "t">>,
     <<"d", "u", "r", "a", "t", "i", "o", "n">>,
     <<"D", "U", "R", "A", "T", "I", "O", "N">>,
     <<"D", "u", "r", "a", "t", "i", "o", "n">>,
     <<"f", "r", "e", "e", "b", "u", "s", "y">>,
     <<"F", "R", "E", "E", "B", "U", "S", "Y">>,
     <<"F", "r", "e", "e", "b", "u", "s", "y">>,
     <<"t", "r", "a", "n", "s", "p">>,
     <<"T", "R", "A", "N", "S", "P">>,
     <<"T", "r", "a", "n", "s", "p">>,
     <<"t", "z", "i", "d">>,
     <<"T", "Z", "I", "D">>,
     <<"T", "z", "i", "d">>,
     <<"t", "z", "n", "a", "m", "e">>,
     <<"T", "Z", "N", "A", "M", "E">>,
     <<"T", "z", "n", "a", "m", "e">>,
     <<"t", "z", "o", "f", "f", "s", "e", "t", "f", "r", "o", "m">>,
     <<"T", "Z", "O", "F", "F", "S", "E", "T", "F", "R", "O", "M">>,
     <<"T", "z", "o", "f", "f", "s", "e", "t", "f", "r", "o", "m">>,
     <<"t", "z", "o", "f", "f", "s", "e", "t", "t", "o">>,
     <<"T", "Z", "O", "F", "F", "S", "E", "T", "T", "O">>,
     <<"T", "z", "o", "f", "f", "s", "e", "t", "t", "o">>,
     <<"t", "z", "u", "r", "l">>,
     <<"T", "Z", "U", "R", "L">>,
     <<"T", "z", "u", "r", "l">>,
     <<"a", "t", "t", "e", "n", "d", "e", "e">>,
     <<"A", "T", "T", "E", "N", "D", "E", "E">>,
     <<"A", "t", "t", "e", "n", "d", "e", "e">>,
     <<"c", "o", "n", "t", "a", "c", "t">>,
     <<"C", "O", "N", "T", "A", "C", "T">>,
     <<"C", "o", "n", "t", "a", "c", "t">>,
     <<"o", "r", "g", "a", "n", "i", "z", "e", "r">>,
     <<"O", "R", "G", "A", "N", "I", "Z", "E", "R">>,
     <<"O", "r", "g", "a", "n", "i", "z", "e", "r">>,
     <<"r", "e", "c", "u", "r", "r", "e", "n", "c", "e", "-", "i", "d">>,
     <<"R", "E", "C", "U", "R", "R", "E", "N", "C", "E", "-", "I", "D">>,
     <<"R", "e", "c", "u", "r", "r", "e", "n", "c", "e", "-", "i", "d">>,
     <<"r", "e", "l", "a", "t", "e", "d", "-", "t", "o">>,
     <<"R", "E", "L", "A", "T", "E", "D", "-", "T", "O">>,
     <<"R", "e", "l", "a", "t", "e", "d", "-", "t", "o">>,
     <<"u", "r", "l">>,
     <<"U", "R", "L">>,
     <<"U", "r", "l">>,
     <<"u", "i", "d">>,
     <<"U", "I", "D">>,
     <<"U", "i", "d">>,
     <<"e", "x", "d", "a", "t", "e">>,
     <<"E", "X", "D", "A", "T", "E">>,
     <<"E", "x", "d", "a", "t", "e">>,
     <<"e", "x", "r", "u", "l", "e">>,
     <<"E", "X", "R", "U", "L", "E">>,
     <<"E", "x", "r", "u", "l", "e">>,
     <<"r", "d", "a", "t", "e">>,
     <<"R", "D", "A", "T", "E">>,
     <<"R", "d", "a", "t", "e">>,
     <<"r", "r", "u", "l", "e">>,
     <<"R", "R", "U", "L", "E">>,
     <<"R", "r", "u", "l", "e">>,
     <<"a", "c", "t", "i", "o", "n">>,
     <<"A", "C", "T", "I", "O", "N">>,
     <<"A", "c", "t", "i", "o", "n">>,
     <<"r", "e", "p", "e", "a", "t">>,
     <<"R", "E", "P", "E", "A", "T">>,
     <<"R", "e", "p", "e", "a", "t">>,
     <<"t", "r", "i", "g", "g", "e", "r">>,
     <<"T", "R", "I", "G", "G", "E", "R">>,
     <<"T", "r", "i", "g", "g", "e", "r">>,
     <<"c", "r", "e", "a", "t", "e", "d">>,
     <<"C", "R", "E", "A", "T", "E", "D">>,
     <<"C", "r", "e", "a", "t", "e", "d">>,
     <<"d", "t", "s", "t", "a", "m", "p">>,
     <<"D", "T", "S", "T", "A", "M", "P">>,
     <<"D", "t", "s", "t", "a", "m", "p">>,
     <<"l", "a", "s", "t", "-", "m", "o", "d", "i", "f", "i", "e", "d">>,
     <<"L", "A", "S", "T", "-", "M", "O", "D", "I", "F", "I", "E", "D">>,
     <<"L", "a", "s", "t", "-", "m", "o", "d", "i", "f", "i", "e", "d">>,
     <<"s", "e", "q", "u", "e", "n", "c", "e">>,
     <<"S", "E", "Q", "U", "E", "N", "C", "E">>,
     <<"S", "e", "q", "u", "e", "n", "c", "e">>,
     <<"r", "e", "q", "u", "e", "s", "t", "-", "s", "t", "a", "t", "u", "s">>,
     <<"R", "E", "Q", "U", "E", "S", "T", "-", "S", "T", "A", "T", "U", "S">>,
     <<"R", "e", "q", "u", "e", "s", "t", "-", "s", "t", "a", "t", "u", "s">>,
     <<"a", "l", "t", "r", "e", "p">>,
     <<"A", "L", "T", "R", "E", "P">>,
     <<"A", "l", "t", "r", "e", "p">>,
     <<"c", "n">>,
     <<"C", "N">>,
     <<"C", "n">>,
     <<"c", "u", "t", "y", "p", "e">>,
     <<"C", "U", "T", "Y", "P", "E">>,
     <<"C", "u", "t", "y", "p", "e">>,
     <<"d", "e", "l", "e", "g", "a", "t", "e", "d", "-", "f", "r", "o", "m">>,
     <<"D", "E", "L", "E", "G", "A", "T", "E", "D", "-", "F", "R", "O", "M">>,
     <<"D", "e", "l", "e", "g", "a", "t", "e", "d", "-", "f", "r", "o", "m">>,
     <<"d", "e", "l", "e", "g", "a", "t", "e", "d", "-", "t", "o">>,
     <<"D", "E", "L", "E", "G", "A", "T", "E", "D", "-", "T", "O">>,
     <<"D", "e", "l", "e", "g", "a", "t", "e", "d", "-", "t", "o">>,
     <<"d", "i", "r">>,
     <<"D", "I", "R">>,
     <<"D", "i", "r">>,
     <<"e", "n", "c", "o", "d", "i", "n", "g">>,
     <<"E", "N", "C", "O", "D", "I", "N", "G">>,
     <<"E", "n", "c", "o", "d", "i", "n", "g">>,
     <<"f", "m", "t", "t", "y", "p", "e">>,
     <<"F", "M", "T", "T", "Y", "P", "E">>,
     <<"F", "m", "t", "t", "y", "p", "e">>,
     <<"f", "b", "t", "y", "p", "e">>,
     <<"F", "B", "T", "Y", "P", "E">>,
     <<"F", "b", "t", "y", "p", "e">>,
     <<"l", "a", "n", "g", "u", "a", "g", "e">>,
     <<"L", "A", "N", "G", "U", "A", "G", "E">>,
     <<"L", "a", "n", "g", "u", "a", "g", "e">>,
     <<"m", "e", "m", "b", "e", "r">>,
     <<"M", "E", "M", "B", "E", "R">>,
     <<"M", "e", "m", "b", "e", "r">>,
     <<"p", "a", "r", "t", "s", "t", "a", "t">>,
     <<"P", "A", "R", "T", "S", "T", "A", "T">>,
     <<"P", "a", "r", "t", "s", "t", "a", "t">>,
     <<"r", "a", "n", "g", "e">>,
     <<"R", "A", "N", "G", "E">>,
     <<"R", "a", "n", "g", "e">>,
     <<"r", "e", "l", "a", "t", "e", "d">>,
     <<"R", "E", "L", "A", "T", "E", "D">>,
     <<"R", "e", "l", "a", "t", "e", "d">>,
     <<"r", "e", "l", "t", "y", "p", "e">>,
     <<"R", "E", "L", "T", "Y", "P", "E">>,
     <<"R", "e", "l", "t", "y", "p", "e">>,
     <<"r", "o", "l", "e">>,
     <<"R", "O", "L", "E">>,
     <<"R", "o", "l", "e">>,
     <<"r", "s", "v", "p">>,
     <<"R", "S", "V", "P">>,
     <<"R", "s", "v", "p">>,
     <<"s", "e", "n", "t", "-", "b", "y">>,
     <<"S", "E", "N", "T", "-", "B", "Y">>,
     <<"S", "e", "n", "t", "-", "b", "y">>,
     <<"v", "a", "l", "u", "e">>,
     <<"V", "A", "L", "U", "E">>,
     <<"V", "a", "l", "u", "e">>,
     <<"x", "-", "c", "u", "s", "t", "o", "m">>,
     <<"X", "-", "W", "R", "-", "C", "A", "L", "N", "A", "M", "E">>,
     <<>>,
     <<"d", "t", "s", "t", "a", "r", "t", "x">>,
     <<"t", "e", "x", "t">>,
     <<"d", "a", "t", "e", "-", "t", "i", "m", "e">>}

TypesFactoryInit ==
    /\ duration = DurationIdle
    /\ utcoffset = UTCOffsetIdle
    /\ weekday = WeekdayIdle
    /\ period = PeriodIdle
    /\ PropertyValue_params = Parameters
    /\ instances = <<>>
    /\ temporal = TemporalIdle
    /\ ddd = DDDIdle
    /\ recur = RecurIdle
    /\ ddd_list = DDDListsIdle
    /\ types_factory \in
          {[TypesFactoryIdle EXCEPT !.pc = "made", !.self = TypesFactory_init(args)]
           : args \in FactoryArgs}

\* self.for_property(name): the lookup leaves the factory as it was, so one
\* lookup is followed from each factory.
TypesFactoryForProperty ==
    /\ types_factory.pc = "made"
    /\ \E name \in LookupNames :
          types_factory' = [types_factory EXCEPT
                               !.pc = "looked", !.name = name,
                               !.found = for_property(types_factory.self, name)]
    /\ UNCHANGED <<duration, utcoffset, weekday, period, PropertyValue_params,
                   instances, temporal, ddd, recur, ddd_list>>

TypesFactoryNext == TypesFactoryForProperty

SpecTypesFactory == TypesFactoryInit /\ [][TypesFactoryNext]_vars

\* The name -> value-type table as the claim reads it: the listed names and
\* the value-type key of each.
ListedTypes ==
    {<<<<"a", "c", "t", "i", "o", "n">>, <<"t", "e", "x", "t">>>>,
     <<<<"a", "l", "t", "r", "e", "p">>, <<"u", "r", "i">>>>,
     <<<<"a", "t", "t", "a", "c", "h">>, <<"u", "r", "i">>>>,
     <<<<"a", "t", "t", "e", "n", "d", "e", "e">>, <<"c", "a", "l", "-", "a", "d", "d", "r", "e", "s", "s">>>>,
     <<<<"c", "a", "l", "s", "c", "a", "l", "e">>, <<"t", "e", "x", "t">>>>,
     <<<<"c", "a", "t", "e", "g", "o", "r", "i", "e", "s">>, <<"t", "e", "x", "t">>>>,
     <<<<"c", "l", "a", "s", "s">>, <<"t", "e", "x", "t">>>>,
     <<<<"c", "n">>, <<"t", "e", "x", "t">>>>,
     <<<<"c", "o", "m", "m", "e", "n", "t">>, <<"t", "e", "x", "t">>>>,
     <<<<"c", "o", "m", "p", "l", "e", "t", "e", "d">>, <<"d", "a", "t", "e", "-", "t", "i", "m", "e">>>>,
     <<<<"c", "o", "n", "t", "a", "c", "t">>, <<"t", "e", "x", "t">>>>,
     <<<<"c", "r", "e", "a", "t", "e", "d">>, <<"d", "a", "t", "e", "-", "t", "i", "m", "e">>>>,
     <<<<"c", "u", "t", "y", "p", "e">>, <<"t", "e", "x", "t">>>>,
     <<<<"d", "e", "l", "e", "g", "a", "t", "e", "d", "-", "f", "r", "o", "m">>, <<"c", "a", "l", "-", "a", "d", "d", "r", "e", "s", "s">>>>,
     <<<<"d", "e", "l", "e", "g", "a", "t", "e", "d", "-", "t", "o">>, <<"c", "a", "l", "-", "a", "d", "d", "r", "e", "s", "s">>>>,
     <<<<"d", "e", "s", "c", "r", "i", "p", "t", "i", "o", "n">>, <<"t", "e", "x", "t">>>>,
     <<<<"d", "i", "r">>, <<"u", "r", "i">>>>,
     <<<<"d", "t", "e", "n", "d">>, <<"d", "a", "t", "e", "-", "t", "i", "m", "e">>>>,
     <<<<"d", "t", "s", "t", "a", "m", "p">>, <<"d", "a", "t", "e", "-", "t", "i", "m", "e">>>>,
     <<<<"d", "t", "s", "t", "a", "r", "t">>, <<"d", "a", "t", "e", "-", "t", "i", "m", "e">>>>,
     <<<<"d", "u", "e">>, <<"d", "a", "t", "e", "-", "t", "i", "m", "e">>>>,
     <<<<"d", "u", "r", "a", "t", "i", "o", "n">>, <<"d", "u", "r", "a", "t", "i", "o", "n">>>>,
     <<<<"e", "n", "c", "o", "d", "i", "n", "g">>, <<"t", "e", "x", "t">>>>,
     <<<<"e", "x", "d", "a", "t", "e">>, <<"d", "a", "t", "e", "-", "t", "i", "m", "e", "-", "l", "i", "s", "t">>>>,
     <<<<"e", "x", "r", "u", "l", "e">>, <<"r", "e", "c", "u", "r">>>>,
     <<<<"f", "b", "t", "y", "p", "e">>, <<"t", "e", "x", "t">>>>,
     <<<<"f", "m", "t", "t", "y", "p", "e">>, <<"t", "e", "x", "t">>>>,
     <<<<"f", "r", "e", "e", "b", "u", "s", "y">>, <<"p", "e", "r", "i", "o", "d">>>>,
     <<<<"g", "e", "o">>, <<"g", "e", "o">>>>,
     <<<<"l", "a", "n", "g", "u", "a", "g", "e">>, <<"t", "e", "x", "t">>>>,
     <<<<"l", "a", "s", "t", "-", "m", "o", "d", "i", "f", "i", "e", "d">>, <<"d", "a", "t", "e", "-", "t", "i", "m", "e">>>>,
     <<<<"l", "o", "c", "a", "t", "i", "o", "n">>, <<"t", "e", "x", "t">>>>,
     <<<<"m", "e", "m", "b", "e", "r">>, <<"c", "a", "l", "-", "a", "d", "d", "r", "e", "s", "s">>>>,
     <<<<"m", "e", "t", "h", "o", "d">>, <<"t", "e", "x", "t">>>>,
     <<<<"o", "r", "g", "a", "n", "i", "z", "e", "r">>, <<"c", "a", "l", "-", "a", "d", "d", "r", "e", "s", "s">>>>,
     <<<<"p", "a", "r", "t", "s", "t", "a", "t">>, <<"t", "e", "x", "t">>>>,
     <<<<"p", "e", "r", "c", "e", "n", "t", "-", "c", "o", "m", "p", "l", "e", "t", "e">>, <<"i", "n", "t", "e", "g", "e", "r">>>>,
     <<<<"p", "r", "i", "o", "r", "i", "t", "y">>, <<"i", "n", "t", "e", "g", "e", "r">>>>,
     <<<<"p", "r", "o", "d", "i", "d">>, <<"t", "e", "x", "t">>>>,
     <<<<"r", "a", "n", "g", "e">>, <<"t", "e", "x", "t">>>>,
     <<<<"r", "d", "a", "t", "e">>, <<"d", "a", "t", "e", "-", "t", "i", "m", "e", "-", "l", "i", "s", "t">>>>,
     <<<<"r", "e", "c", "u", "r", "r", "e", "n", "c", "e", "-", "i", "d">>, <<"d", "a", "t", "e", "-", "t", "i", "m", "e">>>>,
     <<<<"r", "e", "l", "a", "t", "e", "d">>, <<"t", "e", "x", "t">>>>,
     <<<<"r", "e", "l", "a", "t", "e", "d", "-", "t", "o">>, <<"t", "e", "x", "t">>>>,
     <<<<"r", "e", "l", "t", "y", "p", "e">>, <<"t", "e", "x", "t">>>>,
     <<<<"r", "e", "p", "e", "a", "t">>, <<"i", "n", "t", "e", "g", "e", "r">>>>,
     <<<<"r", "e", "q", "u", "e", "s", "t", "-", "s", "t", "a", "t", "u", "s">>, <<"t", "e", "x", "t">>>>,
     <<<<"r", "e", "s", "o", "u", "r", "c", "e", "s">>, <<"t", "e", "x", "t">>>>,
     <<<<"r", "o", "l", "e">>, <<"t", "e", "x", "t">>>>,
     <<<<"r", "r", "u", "l", "e">>, <<"r", "e", "c", "u", "r">>>>,
     <<<<"r", "s", "v", "p">>, <<"b", "o", "o", "l", "e", "a", "n">>>>,
     <<<<"s", "e", "n", "t", "-", "b", "y">>, <<"c", "a", "l", "-", "a", "d", "d", "r", "e", "s", "s">>>>,
     <<<<"s", "e", "q", "u", "e", "n", "c", "e">>, <<"i", "n", "t", "e", "g", "e", "r">>>>,
     <<<<"s", "t", "a", "t", "u", "s">>, <<"t", "e", "x", "t">>>>,
     <<<<"s", "u", "m", "m", "a", "r", "y">>, <<"t", "e", "x", "t">>>>,
     <<<<"t", "r", "a", "n", "s", "p">>, <<"t", "e", "x", "t">>>>,
     <<<<"t", "r", "i", "g", "g", "e", "r">>, <<"d", "u", "r", "a", "t", "i", "o", "n">>>>,
     <<<<"t", "z", "i", "d">>, <<"t", "e", "x", "t">>>>,
     <<<<"t", "z", "n", "a", "m", "e">>, <<"t", "e", "x", "t">>>>,
     <<<<"t", "z", "o", "f", "f", "s", "e", "t", "f", "r", "o", "m">>, <<"u", "t", "c", "-", "o", "f", "f", "s", "e", "t">>>>,
     <<<<"t", "z", "o", "f", "f", "s", "e", "t", "t", "o">>, <<"u", "t", "c", "-", "o", "f", "f", "s", "e", "t">>>>,
     <<<<"t", "z", "u", "r", "l">>, <<"u", "r", "i">>>>,
     <<<<"u", "i", "d">>, <<"t", "e", "x", "t">>>>,
     <<<<"u", "r", "l">>, <<"u", "r", "i">>>>,
     <<<<"v", "a", "l", "u", "e">>, <<"t", "e", "x", "t">>>>,
     <<<<"v", "e", "r", "s", "i", "o", "n">>, <<"t", "e", "x", "t">>>>}

\* The codecs a factory holds, and the one under a value-type key.
RegisteredCodecs(self) == {self[i].vals : i \in 1..Len(self)}
CodecUnder(self, key) == {self[i].vals : i \in {j \in 1..Len(self) : self[j].key = Upper(key)}}

\* C11: every lookup returns a registered codec; a listed name, in any
\* letter case, returns the codec registered under its value-type key; an
\* unlisted name returns the Text codec; and every value-type key of the
\* table is a key of the factory.
C11_LookupTotal ==
    /\ types_factory.pc # "idle" =>
          \A e \in ListedTypes : CodecUnder(types_factory.self, e[2]) # {}
    /\ types_factory.pc = "looked" =>
          LET listed == {e \in ListedTypes : Upper(e[1]) = Upper(types_factory.name)}
          IN  /\ types_factory.found.ok
              /\ types_factory.found.codec \in RegisteredCodecs(types_factory.self)
              /\ \A e \in listed :
                    CodecUnder(types_factory.self, e[2]) = {types_factory.found.codec}
              /\ listed = {} => types_factory.found.codec = "vText"

\* DTSTART, in upper case, has been looked up and gave the temporal
\* dispatcher.
C11_Witness ==
    /\ types_factory.pc = "looked"
    /\ types_factory.name = <<"D", "T", "S", "T", "A", "R", "T">>
    /\ types_factory.found.ok
    /\ types_factory.found.codec = "vDDDTypesFactory"

====
